---- MODULE Spec2Model ----
(***************************************************************************)
(* Model of the PerfumeMatcher backend: the matcher engine                 *)
(* (backend/matcher/vectorizer.py), its process-wide engine cache and the  *)
(* two recommendation endpoints (backend/api/views.py).                    *)
(*                                                                         *)
(* Conventions                                                             *)
(*  - A Python float score is an integer number of thousandths             *)
(*    (0.2 is 200, 1.0 is 1000).                                           *)
(*  - Python values whose type matters keep a type tag: an id is           *)
(*    [t |-> "int", v |-> n] or [t |-> "str", num |-> b, v |-> n], the      *)
(*    string being the decimal numeral of n when num, and the slug         *)
(*    "perfume_n" otherwise.                                               *)
(*  - An optional string (family, gender, intensity) is the string or     *)
(*    None == "None"; the empty string is not used.                        *)
(*  - A note label is a sequence of symbols: a word (a run of \w           *)
(*    characters, written in Latin transliteration), " " (whitespace) or   *)
(*    "." (punctuation).                                                   *)
(***************************************************************************)
EXTENDS Integers, Sequences, FiniteSets, TLC

VARIABLES
    perfumes_json,    \* BASE_DIR/perfumes.json: [readable, items]
    env_key,          \* os.getenv("AI_API_KEY") or os.getenv("OPENAI_API_KEY") is set
    settings_key,     \* settings.OPENAI_API_KEY is set
    objs,             \* heap of PerfumeEngine objects, in allocation order
    engine_instance,  \* vectorizer._engine_instance: 0 (None) or an index of objs
    pc,               \* position of the request being handled
    req,              \* the request: endpoint, validated questionnaire, query parameters
    sims,             \* cosine_similarity(q_vec, self.matrix)[0]
    ranking,          \* adjusted_scores and idx_sorted of PerfumeEngine.recommend
    baseline,         \* the "results" list returned by PerfumeEngine.recommend
    engine_rankings,  \* local ai_rankings of PerfumeEngine.recommend (<< >>: None)
    ai_reply,         \* what the external service answered to the view's call
    response,         \* what the endpoint handed to its caller
    external_calls,   \* chat.completions.create calls made for the current request
    tpc,              \* per thread: position inside get_engine
    tperfumes,        \* per thread: the local variable perfumes of get_engine
    tself,            \* per thread: the PerfumeEngine under construction (index of objs)
    tret,             \* per thread: the value get_engine returned (0: nothing yet)
    score_in,         \* argument of _safe_score_to_percentage
    pct_out,          \* its result
    note_in,          \* argument of _normalize_note
    note_out,         \* its results: after one application, after two
    q_in,             \* argument of questionnaire_to_profile_text
    profile_text,     \* its result, as the sequence of the tokens joined
    raw_in,           \* argument of _adapt_perfume: a record of perfumes.json
    p_in,             \* a Perfume: result of _adapt_perfume, argument of perfume_to_text
    p_text,           \* result of perfume_to_text, as the sequence of its tokens
    rpc,              \* per thread: position inside PerfumeEngine.recommend
    tq,               \* per thread: qdata, sims and loop index of its recommend call
    tscores,          \* per call: the local list adjusted_scores
    tresult           \* per thread: adjusted_scores and idx_sorted its call ended with

vars == << perfumes_json, env_key, settings_key, objs, engine_instance, pc, req,
           sims, ranking, baseline, engine_rankings, ai_reply, response, external_calls,
           tpc, tperfumes, tself, tret, score_in, pct_out,
           note_in, note_out, q_in, profile_text, raw_in, p_in, p_text,
           rpc, tq, tscores, tresult >>

cfg_vars == << perfumes_json, env_key, settings_key >>
req_vars == << pc, req, sims, ranking, baseline, engine_rankings, ai_reply, response,
              external_calls >>
thr_vars == << tpc, tperfumes, tself, tret >>
rec_vars == << rpc, tq, tscores, tresult >>
pct_vars == << score_in, pct_out >>
item_vars == << raw_in, p_in, p_text >>
text_vars == << note_in, note_out, q_in, profile_text, item_vars >>
not_cache_vars == << cfg_vars, req_vars, pct_vars, text_vars, rec_vars >>

(***************************************************************************)
(* Bounds of the model.                                                    *)
(***************************************************************************)
\* catalogs of 0..MaxCatalog items are enumerated in full
MaxCatalog == 2
\* concurrent request handlers calling get_engine
NumThreads == 2
\* PerfumeEngine objects allocated in one behaviour
MaxEngines == 3
\* scores from -ScoreSpan to 1000 + ScoreSpan thousandths
ScoreSpan == 60

Min(a, b) == IF a < b THEN a ELSE b
Max(a, b) == IF a > b THEN a ELSE b
Range(s) == { s[i] : i \in DOMAIN s }

(***************************************************************************)
(* Python values.                                                          *)
(***************************************************************************)
None == "None"     \* None where the other values are strings
IntId(n) == [t |-> "int", v |-> n]
NumStr(n) == [t |-> "str", num |-> TRUE, v |-> n]
Slug(n) == [t |-> "str", num |-> FALSE, v |-> n]

\* str(x) for an id value
PyStr(x) == IF x.t = "int" THEN NumStr(x.v) ELSE x

\* int(x) raises ValueError on a string that is no numeral
IntRaises(x) == x.t = "str" /\ ~x.num
PyInt(x) == IF x.t = "int" THEN x ELSE IntId(x.v)

\* seq[:k] of Python, for any integer k
PySlice(seq, k) ==
    LET n == Len(seq)
        stop == IF k >= 0 THEN Min(k, n) ELSE Max(n + k, 0)
    IN  SubSeq(seq, 1, stop)

\* round(n / d) of Python 3 for d > 0: to nearest, ties to even
PyRound(n, d) ==
    LET q == n \div d
        r == n % d
    IN  IF 2 * r < d THEN q
        ELSE IF 2 * r > d THEN q + 1
        ELSE IF q % 2 = 0 THEN q ELSE q + 1

(***************************************************************************)
(* matcher/note_normalization.py and the token normalizer.                 *)
(***************************************************************************)
IsSpace(c) == c = " "
IsPunct(c) == c = "."

RECURSIVE LStrip(_)
LStrip(s) == IF s # << >> /\ IsSpace(Head(s)) THEN LStrip(Tail(s)) ELSE s

RECURSIVE RStrip(_)
RStrip(s) ==
    IF s # << >> /\ IsSpace(s[Len(s)]) THEN RStrip(SubSeq(s, 1, Len(s) - 1)) ELSE s

Strip(s) == RStrip(LStrip(s))

\* NOTE_NORMALIZATION: variant label -> canonical label
NOTE_NORMALIZATION ==
    { << <<"vanil", " ", "madagaskar">>, <<"vanil">> >>,
      << <<"vnil">>, <<"vanil">> >>,
      << <<"sandal">>, <<"chub", " ", "sandal">> >>,
      << <<"sandal", " ", "sefid">>, <<"chub", " ", "sandal">> >> }

normalize_note_label(raw) ==
    LET s == Strip(raw)
        hit == { e \in NOTE_NORMALIZATION : e[1] = s }
    IN  IF hit = {} THEN s ELSE (CHOOSE e \in hit : TRUE)[2]

\* re.sub(r"\s+", "_", s): every run of whitespace becomes one "_"
RECURSIVE UnderscoreSpaces(_)
UnderscoreSpaces(s) ==
    IF s = << >> THEN << >>
    ELSE IF IsSpace(Head(s)) THEN << "_" >> \o UnderscoreSpaces(LStrip(s))
    ELSE << Head(s) >> \o UnderscoreSpaces(Tail(s))

\* re.sub(r"[^\w_]", "", s): drop every character that is no word character
RECURSIVE StripPunct(_)
StripPunct(s) ==
    IF s = << >> THEN << >>
    ELSE IF IsPunct(Head(s)) THEN StripPunct(Tail(s))
    ELSE << Head(s) >> \o StripPunct(Tail(s))

normalize_token(s) == StripPunct(UnderscoreSpaces(Strip(s)))

normalize_note(raw) == normalize_token(normalize_note_label(raw))

\* bridge_config.NOTE_CATEGORY_TO_TAGS: note category -> representative labels
NOTE_CATEGORY_TO_TAGS ==
    [ citrus    |-> { <<"toranj">>, <<"limu">>, <<"porteqal">>, <<"gerip", " ", "forut">>, <<"mandarin">> },
      floral    |-> { <<"roz">>, <<"yas">>, <<"shamdani">>, <<"yasaman">>, <<"gol", " ", "sadtumani">> },
      woody     |-> { <<"sedr">>, <<"chub", " ", "sandal">>, <<"oud">>, <<"khas", " ", "khas">>, <<"vetiver">> },
      spicy     |-> { <<"felfel">>, <<"darchin">>, <<"hel">>, <<"mikhak">>, <<"zaferan">> },
      sweet     |-> { <<"vanil">>, <<"karamel">>, <<"peralin">>, <<"asal">>, <<"tonka">> },
      gourmand  |-> { <<"qahve">>, <<"shokolat">>, <<"kakao">>, <<"badam">>, <<"fandoq">> },
      fruity    |-> { <<"sib">>, <<"angur">>, <<"tut", " ", "farangi">>, <<"anar">>, <<"anjir">> },
      green     |-> { <<"nana">>, <<"reyhan">>, <<"chay", " ", "sabz">>, <<"giahi">>, <<"ostokhodus">> },
      oriental  |-> { <<"kahroba">>, <<"bokhur">>, <<"labdanum">>, <<"benzoin">> },
      resinous  |-> { <<"rezin">>, <<"samgh">>, <<"balm">>, <<"olibanum">> },
      aquatic   |-> { <<"ab">>, <<"darya">>, <<"oqyanusi">>, <<"khaze">> },
      earthy    |-> { <<"khak">>, <<"pachuli">>, <<"khaze">>, <<"terafel">> },
      musky     |-> { <<"moshk">>, <<"keshmir">>, <<"iris">> },
      animalic  |-> { <<"kastorium">>, <<"anbar">> },
      powdery   |-> { <<"pudri">>, <<"iris">>, <<"pudr", " ", "talk">> },
      tobacco   |-> { <<"tanbaku">>, <<"shokufe", " ", "tanbaku">> },
      leather   |-> { <<"charm">> },
      herbal    |-> { <<"babune">>, <<"afsantin">>, <<"jinseng">>, <<"razak">>, <<"badranjbuye">> },
      beverage  |-> { <<"sharab">>, <<"shampayn">>, <<"berandi">>, <<"tekila">>, <<"viski">> },
      synthetic |-> { <<"aldeidha">>, <<"indol">>, <<"sitron">>, <<"lornox">> },
      mineral   |-> { <<"felez">>, <<"sang">>, <<"asfalt">>, <<"barut">> } ]

\* bridge_config.SWEET_NOTES
SWEET_NOTES == << <<"vanil">>, <<"tonka">>, <<"peralin">>, <<"karamel">>, <<"asal">> >>

(***************************************************************************)
(* The catalog file and load_perfumes.                                     *)
(***************************************************************************)
\* Three kinds of catalog record, by position: a very sweet strong one, an
\* oud-bearing very strong one, a plain soft one.
RawItem(i, numeric) ==
    LET kind == i % 3
    IN  [ id          |-> IF numeric THEN IntId(i) ELSE Slug(i),
          family      |-> None,
          gender      |-> IF kind = 0 THEN "unisex" ELSE "female",
          main_accords |-> IF kind = 2 THEN << <<"oud">> >> ELSE << >>,
          top_notes   |-> IF kind = 0 THEN << <<"roz">> >> ELSE << >>,
          heart_notes |-> << >>,
          base_notes  |-> IF kind = 1 THEN << <<"vnil">> >> ELSE << >>,
          seasons     |-> << >>,
          occasions   |-> << >>,
          intensity   |-> CASE kind = 1 -> "strong"
                            [] kind = 2 -> "very_strong"
                            [] OTHER -> "soft" ]

RawCatalog(n, numeric) == [ i \in 1..n |-> RawItem(i, numeric) ]

\* a variant of _adapt_perfume that leaves the id as the file holds it
adapt_perfume_raw_id(raw) == raw

\* _adapt_perfume: the id becomes a string; the list fields are already lists
adapt_perfume(raw) == [ raw EXCEPT !.id = PyStr(raw.id) ]

\* load_perfumes: raises when the file cannot be read or parsed
LoadRaises(file) == ~file.readable
load_perfumes(file) == [ i \in DOMAIN file.items |-> adapt_perfume(file.items[i]) ]

(***************************************************************************)
(* PerfumeEngine.__init__ and _precompute_perfume_attributes.              *)
(***************************************************************************)
collect_normalized_notes(p) ==
    LET merged == p.top_notes \o p.heart_notes \o p.base_notes \o p.main_accords
    IN  [ i \in DOMAIN merged |-> normalize_note(merged[i]) ]

sweet_targets == { normalize_note(SWEET_NOTES[i]) : i \in DOMAIN SWEET_NOTES }
oud_targets == { normalize_note(<<"oud">>), normalize_token(<<"oud">>) }

IsVerySweet(p) == Range(collect_normalized_notes(p)) \cap sweet_targets # {}
HasOud(p) == Range(collect_normalized_notes(p)) \cap oud_targets # {}

\* perfume_to_text(p) has at least one token
HasTerms(p) ==
    \/ p.family # None
    \/ p.main_accords # << >>
    \/ p.top_notes # << >>
    \/ p.heart_notes # << >>
    \/ p.base_notes # << >>
    \/ p.gender # None
    \/ p.seasons # << >>
    \/ p.occasions # << >>
    \/ p.intensity # None

\* a variant whose fit accepts any list of documents, the empty one included
FitNeverRaises(perfumes) == FALSE

\* TfidfVectorizer.fit_transform raises ValueError("empty vocabulary") when no
\* document has a token, in particular on an empty list of documents
FitRaises(perfumes) == \A i \in DOMAIN perfumes : ~HasTerms(perfumes[i])

NotFitted == 0 - 1

\* the object right after "self.perfumes = perfumes"
NewEngine(perfumes) ==
    [ perfumes |-> perfumes, matrix |-> NotFitted,
      perfume_is_very_sweet |-> << >>, perfume_has_oud |-> << >> ]

\* "self.matrix = self.vectorizer.fit_transform(docs)": one row per document
Fitted(e) == [ e EXCEPT !.matrix = Len(e.perfumes) ]

\* one iteration of the loop of _precompute_perfume_attributes
PrecomputeOne(e) ==
    LET p == e.perfumes[Len(e.perfume_is_very_sweet) + 1]
    IN  [ e EXCEPT !.perfume_is_very_sweet = Append(@, IsVerySweet(p)),
                   !.perfume_has_oud = Append(@, HasOud(p)) ]

RECURSIVE PrecomputeAll(_)
PrecomputeAll(e) ==
    IF Len(e.perfume_is_very_sweet) >= Len(e.perfumes) THEN e
    ELSE PrecomputeAll(PrecomputeOne(e))

\* the whole constructor, when it does not raise
PerfumeEngine(perfumes) == PrecomputeAll(Fitted(NewEngine(perfumes)))

FullyBuilt(e) ==
    /\ e.matrix = Len(e.perfumes)
    /\ Len(e.perfume_is_very_sweet) = Len(e.perfumes)
    /\ Len(e.perfume_has_oud) = Len(e.perfumes)

(***************************************************************************)
(* Catalog files the model starts from.                                    *)
(***************************************************************************)
Unreadable == [ readable |-> FALSE, items |-> << >> ]
CatalogFile(n, numeric) == [ readable |-> TRUE, items |-> RawCatalog(n, numeric) ]

SmallCatalogFiles ==
    { Unreadable } \cup { CatalogFile(n, b) : n \in 0..MaxCatalog, b \in BOOLEAN }

(***************************************************************************)
(* _safe_score_to_percentage (api/views.py).                               *)
(* Its argument: [t |-> "None"], [t |-> "inf", neg |-> b] or               *)
(* [t |-> "float", v |-> thousandths].                                     *)
(***************************************************************************)
ScoreNone == [ t |-> "None" ]
Inf(neg) == [ t |-> "inf", neg |-> neg ]
Float(v) == [ t |-> "float", v |-> v ]

\* a plausible slip: the lower clamp forgotten
UnclampedBelowPercentage(score) ==
    IF score.t = "None" THEN 0
    ELSE IF score.t = "inf" THEN (IF score.neg THEN 0 ELSE 100)
    ELSE Min(100, PyRound(score.v, 10))

safe_score_to_percentage(score) ==
    IF score.t = "None" THEN 0
    ELSE IF score.t = "inf" THEN (IF score.neg THEN 0 ELSE 100)
    ELSE Max(0, Min(100, PyRound(score.v, 10)))

ScoreInputs ==
    { ScoreNone, Inf(TRUE), Inf(FALSE) }
        \cup { Float(v) : v \in (0 - ScoreSpan)..(1000 + ScoreSpan) }

NoPct == 0 - 1

InitPct ==
    /\ score_in \in ScoreInputs
    /\ pct_out = NoPct

ConvertScore ==
    /\ pct_out = NoPct
    /\ pct_out' = safe_score_to_percentage(score_in)
    /\ UNCHANGED score_in

(***************************************************************************)
(* get_engine (matcher/vectorizer.py), one step per statement, run by      *)
(* NumThreads request-handler threads.                                     *)
(***************************************************************************)
Threads == 1..NumThreads

InitCache ==
    /\ objs = << >>
    /\ engine_instance = 0
    /\ tpc = [ t \in Threads |-> "idle" ]
    /\ tperfumes = [ t \in Threads |-> << >> ]
    /\ tself = [ t \in Threads |-> 0 ]
    /\ tret = [ t \in Threads |-> 0 ]

\* a handler calls get_engine()
CallGetEngine(t) ==
    /\ tpc[t] = "idle"
    /\ tpc' = [ tpc EXCEPT ![t] = "check" ]
    /\ tret' = [ tret EXCEPT ![t] = 0 ]
    /\ UNCHANGED << objs, engine_instance, tperfumes, tself >>
    /\ UNCHANGED not_cache_vars

\* a variant that builds whatever the cache holds
CheckInstanceAlwaysBuilds(t) ==
    /\ tpc[t] = "check"
    /\ tpc' = [ tpc EXCEPT ![t] = "load" ]
    /\ UNCHANGED << objs, engine_instance, tperfumes, tself, tret >>
    /\ UNCHANGED not_cache_vars

\* if _engine_instance is None:
CheckInstance(t) ==
    /\ tpc[t] = "check"
    /\ tpc' = [ tpc EXCEPT ![t] = IF engine_instance = 0 THEN "load" ELSE "return" ]
    /\ UNCHANGED << objs, engine_instance, tperfumes, tself, tret >>
    /\ UNCHANGED not_cache_vars

\* perfumes = load_perfumes()
LoadPerfumes(t) ==
    /\ tpc[t] = "load"
    /\ IF LoadRaises(perfumes_json)
       THEN /\ tpc' = [ tpc EXCEPT ![t] = "raised" ]
            /\ UNCHANGED tperfumes
       ELSE /\ tpc' = [ tpc EXCEPT ![t] = "new" ]
            /\ tperfumes' = [ tperfumes EXCEPT ![t] = load_perfumes(perfumes_json) ]
    /\ UNCHANGED << objs, engine_instance, tself, tret >>
    /\ UNCHANGED not_cache_vars

\* PerfumeEngine.__init__: self.perfumes = perfumes
InitPerfumes(t) ==
    /\ tpc[t] = "new"
    /\ Len(objs) < MaxEngines
    /\ objs' = Append(objs, NewEngine(tperfumes[t]))
    /\ tself' = [ tself EXCEPT ![t] = Len(objs) + 1 ]
    /\ tpc' = [ tpc EXCEPT ![t] = "fit" ]
    /\ UNCHANGED << engine_instance, tperfumes, tret >>
    /\ UNCHANGED not_cache_vars

\* PerfumeEngine.__init__: self.matrix = self.vectorizer.fit_transform(docs)
InitFit(t) ==
    /\ tpc[t] = "fit"
    /\ IF FitRaises(objs[tself[t]].perfumes)
       THEN /\ tpc' = [ tpc EXCEPT ![t] = "raised" ]
            /\ UNCHANGED objs
       ELSE /\ tpc' = [ tpc EXCEPT ![t] = "precompute" ]
            /\ objs' = [ objs EXCEPT ![tself[t]] = Fitted(@) ]
    /\ UNCHANGED << engine_instance, tperfumes, tself, tret >>
    /\ UNCHANGED not_cache_vars

\* _precompute_perfume_attributes: one iteration of "for p in self.perfumes",
\* or the end of the loop and of the constructor
InitPrecompute(t) ==
    /\ tpc[t] = "precompute"
    /\ LET e == objs[tself[t]]
       IN  IF Len(e.perfume_is_very_sweet) < Len(e.perfumes)
           THEN /\ objs' = [ objs EXCEPT ![tself[t]] = PrecomputeOne(@) ]
                /\ UNCHANGED tpc
           ELSE /\ tpc' = [ tpc EXCEPT ![t] = "constructed" ]
                /\ UNCHANGED objs
    /\ UNCHANGED << engine_instance, tperfumes, tself, tret >>
    /\ UNCHANGED not_cache_vars

\* a plausible slip: the instance is published as soon as the object exists
CanPublishEarly(t) == tpc[t] \in { "fit", "precompute", "constructed" }

\* the assignment of "_engine_instance = PerfumeEngine(perfumes)" runs when the
\* constructor has returned
CanPublish(t) == tpc[t] = "constructed"

\* _engine_instance = <the new object>
AssignInstance(t) ==
    /\ CanPublish(t)
    /\ engine_instance' = tself[t]
    /\ tpc' = [ tpc EXCEPT ![t] = "return" ]
    /\ UNCHANGED << objs, tperfumes, tself, tret >>
    /\ UNCHANGED not_cache_vars

\* return _engine_instance
ReturnInstance(t) ==
    /\ tpc[t] = "return"
    /\ tret' = [ tret EXCEPT ![t] = engine_instance ]
    /\ tpc' = [ tpc EXCEPT ![t] = "done" ]
    /\ UNCHANGED << objs, engine_instance, tperfumes, tself >>
    /\ UNCHANGED not_cache_vars

\* the handler is finished (with the engine or with the exception) and the
\* thread is free for the next request
FinishHandler(t) ==
    /\ tpc[t] \in { "done", "raised" }
    /\ tpc' = [ tpc EXCEPT ![t] = "idle" ]
    /\ tperfumes' = [ tperfumes EXCEPT ![t] = << >> ]
    /\ tself' = [ tself EXCEPT ![t] = 0 ]
    /\ UNCHANGED << objs, engine_instance, tret >>
    /\ UNCHANGED not_cache_vars

(***************************************************************************)
(* PerfumeEngine.recommend: local scoring (vectorizer.py 326-357).         *)
(***************************************************************************)
PenaltyVerySweet == 200
PenaltyOud == 200
PenaltyOffice == 150

\* a variant that chains the three tests with "elif": at most one deduction
AdjustedScoreFirstPenaltyOnly(e, qdata, idx, base_score) ==
    LET perfume == e.perfumes[idx]
    IN  IF qdata.avoid_very_sweet /\ e.perfume_is_very_sweet[idx]
        THEN base_score - PenaltyVerySweet
        ELSE IF qdata.avoid_oud /\ e.perfume_has_oud[idx]
        THEN base_score - PenaltyOud
        ELSE IF /\ "office" \in Range(qdata.contexts)
                /\ perfume.intensity # None
                /\ perfume.intensity \in { "strong", "very_strong" }
        THEN base_score - PenaltyOffice
        ELSE base_score

\* the body of "for idx, base_score in enumerate(sims)"
AdjustedScore(e, qdata, idx, base_score) ==
    LET perfume == e.perfumes[idx]
        s1 == IF qdata.avoid_very_sweet /\ e.perfume_is_very_sweet[idx]
              THEN base_score - PenaltyVerySweet ELSE base_score
        s2 == IF qdata.avoid_oud /\ e.perfume_has_oud[idx]
              THEN s1 - PenaltyOud ELSE s1
    IN  IF /\ "office" \in Range(qdata.contexts)
           /\ perfume.intensity # None
           /\ perfume.intensity \in { "strong", "very_strong" }
        THEN s2 - PenaltyOffice ELSE s2

\* sorted(..., reverse=True) is stable: an index goes behind every index whose
\* key is greater or equal
RECURSIVE InsertDesc(_, _, _)
InsertDesc(sorted, i, key) ==
    IF sorted = << >> THEN << i >>
    ELSE IF key[Head(sorted)] >= key[i]
         THEN << Head(sorted) >> \o InsertDesc(Tail(sorted), i, key)
         ELSE << i >> \o sorted

RECURSIVE InsertDescTiesReversed(_, _, _)
InsertDescTiesReversed(sorted, i, key) ==
    IF sorted = << >> THEN << i >>
    ELSE IF key[Head(sorted)] > key[i]
         THEN << Head(sorted) >> \o InsertDescTiesReversed(Tail(sorted), i, key)
         ELSE << i >> \o sorted

RECURSIVE SortPrefix(_, _)
SortPrefix(n, key) ==
    IF n = 0 THEN << >> ELSE InsertDesc(SortPrefix(n - 1, key), n, key)

RECURSIVE SortPrefixTiesReversed(_, _)
SortPrefixTiesReversed(n, key) ==
    IF n = 0 THEN << >>
    ELSE InsertDescTiesReversed(SortPrefixTiesReversed(n - 1, key), n, key)

\* a plausible slip: an ascending sort that is then reversed, which also
\* reverses the items of equal score
sorted_ties_reversed(n, key) == SortPrefixTiesReversed(n, key)

\* sorted(range(n), key=lambda i: key[i], reverse=True)
sorted_desc(n, key) == SortPrefix(n, key)

\* a variant that clamps the scores into [0, 1] before it sorts and stores them
LocalRankingClamped(e, qdata, s) ==
    LET adjusted == [ idx \in DOMAIN e.perfumes |->
                        Max(0, Min(1000, AdjustedScore(e, qdata, idx, s[idx]))) ]
    IN  [ adjusted_scores |-> adjusted,
          idx_sorted |-> PySlice(sorted_desc(Len(e.perfumes), adjusted), qdata.limit) ]

\* adjusted_scores and idx_sorted
LocalRanking(e, qdata, s) ==
    LET adjusted == [ idx \in DOMAIN e.perfumes |-> AdjustedScore(e, qdata, idx, s[idx]) ]
    IN  [ adjusted_scores |-> adjusted,
          idx_sorted |-> PySlice(sorted_desc(Len(e.perfumes), adjusted), qdata.limit) ]

(***************************************************************************)
(* PerfumeEngine.recommend: _ai_rerank and the results (380-435).          *)
(* An item of a service reply: [id, matchPercentage, reasons], reasons      *)
(* being [list |-> b, items |-> seq].                                      *)
(***************************************************************************)
EmptyStr == [ t |-> "str", num |-> FALSE, v |-> 0 ]
Truthy(seq) == seq # << >>

\* max(1, min(100, int(x))) of _ai_rerank
ClampEngine(x) == Max(1, Min(100, x))

\* the list "out" of _ai_rerank for a reply that parsed to a list of items
ParseEngineReply(items) ==
    [ i \in DOMAIN items |->
        [ id |-> PyStr(items[i].id),
          matchPercentage |-> ClampEngine(items[i].matchPercentage),
          reasons |-> IF items[i].reasons.list THEN items[i].reasons.items ELSE << >> ] ]

\* the value of _ai_rerank: << >> stands for None
ai_rerank(reply) ==
    IF reply.kind = "rankings" THEN ParseEngineReply(reply.items) ELSE << >>

\* int(max(1, min(100, score * 100)))
LocalPercentage(score) == Max(1, Min(100, score \div 10))

\* ai_map.get(pid): in a dict comprehension the last entry of a key wins
AiMapGet(ai_rankings, pid) ==
    LET hits == { i \in DOMAIN ai_rankings :
                    ai_rankings[i].id = pid /\ ai_rankings[i].id # EmptyStr }
    IN  IF hits = {} THEN << >>
        ELSE << ai_rankings[CHOOSE i \in hits : \A j \in hits : j <= i] >>

\* the elements of seq at the positions in S, in order: a loop over seq that
\* appends or skips
RECURSIVE SelectAt(_, _)
SelectAt(seq, S) ==
    IF seq = << >> THEN << >>
    ELSE LET n == Len(seq)
             front == SelectAt(SubSeq(seq, 1, n - 1), S)
         IN  IF n \in S THEN Append(front, seq[n]) ELSE front

\* the "results" list
EngineResults(e, rk, ai_rankings) ==
    LET pid(idx) == e.perfumes[idx].id
        score(idx) == rk.adjusted_scores[idx]
        ranked_idx ==
            SelectAt(rk.idx_sorted,
                     { i \in DOMAIN rk.idx_sorted :
                         AiMapGet(ai_rankings, pid(rk.idx_sorted[i])) # << >> })
        ranked == [ i \in DOMAIN ranked_idx |->
                      LET idx == ranked_idx[i]
                          ar == AiMapGet(ai_rankings, pid(idx))[1]
                      IN  [ id |-> pid(idx),
                            matchPercentage |-> ar.matchPercentage,
                            reasons |-> ar.reasons,
                            score |-> score(idx) ] ]
        Local(idx) == [ id |-> pid(idx),
                        matchPercentage |-> LocalPercentage(score(idx)),
                        reasons |-> << >>,
                        score |-> score(idx) ]
        rest_idx ==
            SelectAt(rk.idx_sorted,
                     { i \in DOMAIN rk.idx_sorted :
                         \A j \in DOMAIN ranked : ranked[j].id # pid(rk.idx_sorted[i]) })
    IN  IF Truthy(ai_rankings)
        THEN IF Len(ranked) < Len(rk.idx_sorted)
             THEN ranked \o [ i \in DOMAIN rest_idx |-> Local(rest_idx[i]) ]
             ELSE ranked
        ELSE [ i \in DOMAIN rk.idx_sorted |-> Local(rk.idx_sorted[i]) ]

(***************************************************************************)
(* Inputs of a request.                                                    *)
(***************************************************************************)
\* QuestionnaireSerializer: limit has min_value 1, default 10, max_value 50
MinLimit == 1
DefaultLimit == 10
MaxLimit == 50

Questionnaires ==
    [ limit : { MinLimit, DefaultLimit, MaxLimit },
      avoid_very_sweet : BOOLEAN,
      avoid_oud : BOOLEAN,
      contexts : { << >>, << "office" >> } ]

\* cosine similarities the fitted model can give an item: partial, full
BaseSims == { 255, 1000 }

\* every assignment for a small catalog, the uniform ones for a larger one
SimsFor(n) ==
    IF n <= MaxCatalog THEN [ 1..n -> BaseSims ]
    ELSE { [ i \in 1..n |-> b ] : b \in BaseSims }

\* request.GET.get("k", 30) and request.GET.get("timeout", 90000): the default,
\* or the string the client sent ("-1", "0", "1", or one that is no numeral)
DefaultK == 30
MaxK == 50
DefaultTimeoutMs == 90000
NotANumeral == Slug(0)
KParams == { IntId(DefaultK), NumStr(0 - 1), NumStr(0), NumStr(1), NotANumeral }
TimeoutParams == { IntId(DefaultTimeoutMs), NotANumeral }

\* what the external service may answer
MaxAiLen == 2
NotAList == [ list |-> FALSE, items |-> << >> ]
ListOf(seq) == [ list |-> TRUE, items |-> seq ]

\* an item below the range and without a list of reasons, and one above the
\* range with more reasons than are asked for
AiShapes ==
    { [ matchPercentage |-> 0 - 5, reasons |-> NotAList ],
      [ matchPercentage |-> 150, reasons |-> ListOf(<< "r1", "r2", "r3", "r4" >>) ] }

AiItems(ids, shapes) ==
    { [ id |-> i, matchPercentage |-> sh.matchPercentage, reasons |-> sh.reasons ] :
        i \in ids, sh \in shapes }

Rankings(items) == [ kind |-> "rankings", items |-> items ]
Failure(why) == [ kind |-> why ]

RankingReplies(ids, shapes) ==
    { Rankings(items) :
        items \in UNION { [ 1..m -> AiItems(ids, shapes) ] : m \in 1..MaxAiLen } }

\* ids the service may name: those of the first items of the catalog and one
\* that no item has
ServiceIdValues(n) == 1..(Min(n, MaxCatalog) + 1)

\* replies to _ai_rerank (the engine's call); the caller that reads only id and
\* score of the results gets one shape of item
EngineReplies(e, shapes) ==
    LET n == Len(e.perfumes)
        form(v) == IF n > 0 /\ IntRaises(e.perfumes[1].id) THEN Slug(v) ELSE NumStr(v)
    IN  { Failure("error"), Rankings(<< >>) }
            \cup RankingReplies({ form(v) : v \in ServiceIdValues(n) }, shapes)

\* replies to the call of recommend_rerank
ViewFailures ==
    { "timeout", "api_error", "exception", "no_content", "bad_json",
      "not_object", "bad_item" }

ViewReplies(n) ==
    { Failure(w) : w \in ViewFailures } \cup { Rankings(<< >>) }
        \cup RankingReplies({ IntId(v) : v \in ServiceIdValues(n) }, AiShapes)

(***************************************************************************)
(* The endpoints (api/views.py).                                           *)
(***************************************************************************)
Exception(type) == [ kind |-> "exception", type |-> type ]
BadRequest == [ kind |-> "response", status |-> 400 ]

\* get_engine() called by one handler at a time: whether it raises, and the
\* heap and the cached reference it leaves
get_engine ==
    IF engine_instance # 0
    THEN [ raises |-> FALSE, objs |-> objs, instance |-> engine_instance ]
    ELSE IF LoadRaises(perfumes_json) \/ FitRaises(load_perfumes(perfumes_json))
    THEN [ raises |-> TRUE, objs |-> objs, instance |-> 0 ]
    ELSE [ raises |-> FALSE,
           objs |-> Append(objs, PerfumeEngine(load_perfumes(perfumes_json))),
           instance |-> Len(objs) + 1 ]

\* Perfume.objects.filter(id__in=ids): the primary key is an integer column, so
\* a string that is no numeral raises ValueError
FilterRaises(ids) == \E i \in DOMAIN ids : IntRaises(ids[i])

\* keys of perfume_map: the integer primary keys of the rows found (the table
\* holds a row for every numeral asked for)
PerfumeMapKeys(ids) == { PyInt(ids[i]) : i \in DOMAIN ids }

Ids(entries) == [ i \in DOMAIN entries |-> entries[i].id ]

\* a variant that passes on the reasons the candidate already has
BaselineRankingsKeepReasons(candidates) ==
    [ i \in DOMAIN candidates |->
        [ id |-> candidates[i].id,
          matchPercentage |-> safe_score_to_percentage(Float(candidates[i].score)),
          reasons |-> candidates[i].reasons ] ]

\* the rankings of every fallback branch of recommend_rerank
BaselineRankings(candidates) ==
    [ i \in DOMAIN candidates |->
        [ id |-> candidates[i].id,
          matchPercentage |-> safe_score_to_percentage(Float(candidates[i].score)),
          reasons |-> << >> ] ]

\* max(0, min(100, int(x))) of recommend_rerank
ClampView(x) == Max(0, Min(100, x))

\* the loop "for item in ai_rankings" with its seen_ids
RECURSIVE NormalizeRankings(_, _, _)
NormalizeRankings(items, candidate_ids, seen_ids) ==
    IF items = << >> THEN << >>
    ELSE LET item == Head(items)
             pid == PyInt(item.id)
         IN  IF pid \in Range(candidate_ids) /\ pid \notin seen_ids
             THEN << [ id |-> pid,
                       matchPercentage |-> ClampView(item.matchPercentage),
                       reasons |-> IF item.reasons.list
                                   THEN PySlice(item.reasons.items, 3) ELSE << >> ] >>
                  \o NormalizeRankings(Tail(items), candidate_ids, seen_ids \cup { pid })
             ELSE NormalizeRankings(Tail(items), candidate_ids, seen_ids)

\* rankings after "Fill missing IDs with baseline scores"
MergedRankings(items, candidates) ==
    LET rankings == NormalizeRankings(items, Ids(candidates), {})
        seen_ids == Range(Ids(rankings))
        not_seen == { i \in DOMAIN candidates : candidates[i].id \notin seen_ids }
    IN  rankings \o BaselineRankings(SelectAt(candidates, not_seen))

\* the try block raises: the call fails, the reply has no content, is no JSON
\* object, has no or empty rankings, or an item cannot be read
RerankRaises(reply) ==
    \/ reply.kind # "rankings"
    \/ reply.items = << >>
    \/ \E i \in DOMAIN reply.items : IntRaises(reply.items[i].id)

OPENAI_AVAILABLE == TRUE

NoRequest == [ endpoint |-> "none" ]
NoRanking == [ adjusted_scores |-> << >>, idx_sorted |-> << >> ]
NoReply == [ kind |-> "none" ]
NoResponse == [ kind |-> "none" ]

\* the cap of "result.get("results", [])[:20]" in recommend
RecommendCap == 20

not_req_vars == << cfg_vars, thr_vars, pct_vars, text_vars, rec_vars >>

CatalogSize == Len(perfumes_json.items)

\* The handler stops with an exception that nothing catches.
Escapes(endpoint, type) ==
    /\ pc' = "responded"
    /\ req' = [ endpoint |-> endpoint, valid |-> TRUE ]
    /\ response' = Exception(type)
    /\ UNCHANGED << sims, ranking, baseline, engine_rankings, ai_reply, external_calls >>

\* Either endpoint: "if not serializer.is_valid()" answers 400.
RejectInvalid(endpoint) ==
    /\ pc = "idle"
    /\ pc' = "responded"
    /\ req' = [ endpoint |-> endpoint, valid |-> FALSE ]
    /\ response' = BadRequest
    /\ UNCHANGED << sims, ranking, baseline, engine_rankings, ai_reply, external_calls >>
    /\ UNCHANGED << objs, engine_instance, not_req_vars >>

\* get_engine() and the local scoring of engine.recommend (vectorizer.py
\* 326-357), common to both endpoints.
ScoreLocally(endpoint, qdata, top_k, s) ==
    LET g == get_engine
    IN  IF g.raises
        THEN /\ Escapes(endpoint, "get_engine")
             /\ UNCHANGED << objs, engine_instance >>
        ELSE /\ objs' = g.objs
             /\ engine_instance' = g.instance
             /\ pc' = "scored"
             /\ req' = [ endpoint |-> endpoint, valid |-> TRUE,
                         qdata |-> qdata, top_k |-> top_k ]
             /\ sims' = s
             /\ ranking' = LocalRanking(g.objs[g.instance], qdata, s)
             /\ UNCHANGED << baseline, engine_rankings, ai_reply, response, external_calls >>

\* recommend, up to the local scoring inside engine.recommend
RecommendStart(qdata, s) ==
    /\ pc = "idle"
    /\ ScoreLocally("recommend", qdata, 0, s)
    /\ UNCHANGED not_req_vars

\* recommend_rerank, up to the local scoring inside engine.recommend
RerankStart(qdata, k, timeout, s) ==
    /\ pc = "idle"
    /\ IF IntRaises(k) \/ IntRaises(timeout)
       THEN /\ Escapes("rerank", "ValueError")
            /\ UNCHANGED << objs, engine_instance >>
       ELSE ScoreLocally("rerank", qdata, Min(PyInt(k).v, MaxK), s)
    /\ UNCHANGED not_req_vars

\* engine.recommend from _to_ai_payload to its return (vectorizer.py 380-435):
\* _ai_rerank calls the service when the environment holds an API key
EngineRerank(reply) ==
    /\ pc = "scored"
    /\ pc' = "baseline"
    /\ engine_rankings' = IF env_key THEN ai_rerank(reply) ELSE << >>
    /\ baseline' = EngineResults(objs[engine_instance], ranking, engine_rankings')
    /\ external_calls' = IF env_key THEN external_calls + 1 ELSE external_calls
    /\ sims' = << >>
    /\ UNCHANGED << req, ranking, ai_reply, response >>
    /\ UNCHANGED << objs, engine_instance, not_req_vars >>

\* recommend after engine.recommend (views.py 104-128)
RecommendFinish ==
    /\ pc = "baseline"
    /\ req.endpoint = "recommend"
    /\ pc' = "responded"
    /\ LET top_results == PySlice(baseline, RecommendCap)
           candidate_ids == Ids(top_results)
           perfume_map == PerfumeMapKeys(candidate_ids)
           full_results ==
               [ i \in DOMAIN top_results |->
                   LET r == top_results[i]
                   IN  IF r.id \in perfume_map
                       THEN [ id |-> r.id, score |-> r.score, serialized |-> TRUE ]
                       ELSE r ]
       IN  response' =
               IF FilterRaises(candidate_ids) THEN Exception("ValueError")
               ELSE [ kind |-> "response", status |-> 200, results |-> full_results ]
    /\ engine_rankings' = << >>
    /\ UNCHANGED << req, sims, ranking, baseline, ai_reply, external_calls >>
    /\ UNCHANGED << objs, engine_instance, not_req_vars >>

RerankResponse(rankings, fallback) ==
    [ kind |-> "response", status |-> 200, rankings |-> rankings, fallback |-> fallback ]

\* recommend_rerank after engine.recommend (views.py 199-415); reply is what
\* the service answers if it is called
RerankFinish(reply) ==
    /\ pc = "baseline"
    /\ req.endpoint = "rerank"
    /\ pc' = "responded"
    /\ LET candidates == PySlice(baseline, req.top_k)
           candidate_ids == Ids(candidates)
           called == /\ Truthy(candidates)
                     /\ ~FilterRaises(candidate_ids)
                     /\ OPENAI_AVAILABLE
                     /\ settings_key
       IN  /\ ai_reply' = IF called THEN reply ELSE NoReply
           /\ external_calls' = IF called THEN external_calls + 1 ELSE external_calls
           /\ response' =
                IF ~Truthy(candidates) THEN RerankResponse(<< >>, TRUE)
                ELSE IF FilterRaises(candidate_ids) THEN Exception("ValueError")
                ELSE IF ~OPENAI_AVAILABLE THEN RerankResponse(BaselineRankings(candidates), TRUE)
                ELSE IF ~settings_key THEN RerankResponse(BaselineRankings(candidates), TRUE)
                ELSE IF RerankRaises(reply) THEN RerankResponse(BaselineRankings(candidates), TRUE)
                ELSE RerankResponse(
                        PySlice(MergedRankings(reply.items, candidates), req.top_k), FALSE)
    /\ engine_rankings' = << >>
    /\ UNCHANGED << req, sims, ranking, baseline >>
    /\ UNCHANGED << objs, engine_instance, not_req_vars >>

(***************************************************************************)
(* Specifications.                                                         *)
(***************************************************************************)
RequestAtRest ==
    /\ pc = "idle"
    /\ req = NoRequest
    /\ sims = << >>
    /\ ranking = NoRanking
    /\ baseline = << >>
    /\ engine_rankings = << >>
    /\ ai_reply = NoReply
    /\ response = NoResponse
    /\ external_calls = 0

\* no thread is inside PerfumeEngine.recommend
RecAtRest ==
    /\ rpc = [ t \in Threads |-> "idle" ]
    /\ tq = [ t \in Threads |-> NoRequest ]
    /\ tscores = [ t \in Threads |-> << >> ]
    /\ tresult = [ t \in Threads |-> NoRanking ]

ThreadsAtRest ==
    /\ tpc = [ t \in Threads |-> "idle" ]
    /\ tperfumes = [ t \in Threads |-> << >> ]
    /\ tself = [ t \in Threads |-> 0 ]
    /\ tret = [ t \in Threads |-> 0 ]
    /\ RecAtRest

PctAtRest ==
    /\ score_in = ScoreNone
    /\ pct_out = NoPct

NoQuestionnaire == [ limit |-> DefaultLimit ]

ItemAtRest ==
    /\ raw_in = << >>
    /\ p_in = << >>
    /\ p_text = << >>

TextAtRest ==
    /\ note_in = << >>
    /\ note_out = << >>
    /\ q_in = NoQuestionnaire
    /\ profile_text = << >>
    /\ ItemAtRest

\* the request is over; the process waits for the next one
NextRequest ==
    /\ pc = "responded"
    /\ pc' = "idle"
    /\ req' = NoRequest
    /\ sims' = << >>
    /\ ranking' = NoRanking
    /\ baseline' = << >>
    /\ engine_rankings' = << >>
    /\ ai_reply' = NoReply
    /\ response' = NoResponse
    /\ external_calls' = 0
    /\ UNCHANGED << objs, engine_instance, not_req_vars >>

\* what the engine's call may get: nothing is asked without a key
EngineCallReplies ==
    IF pc = "scored" /\ env_key
    THEN EngineReplies(objs[engine_instance],
                       IF req.endpoint = "rerank"
                       THEN { sh \in AiShapes : sh.reasons.list }
                       ELSE AiShapes)
    ELSE { NoReply }

\* what the endpoint's call may get
ViewCallReplies ==
    IF settings_key THEN ViewReplies(CatalogSize) ELSE { NoReply }

CatalogFiles ==
    SmallCatalogFiles \cup { CatalogFile(RecommendCap + 1, b) : b \in BOOLEAN }

\* one process handling recommendation requests one after the other
Init ==
    /\ perfumes_json \in CatalogFiles
    /\ env_key \in BOOLEAN
    /\ settings_key \in BOOLEAN
    /\ objs = << >>
    /\ engine_instance = 0
    /\ RequestAtRest
    /\ ThreadsAtRest
    /\ PctAtRest
    /\ TextAtRest

Next ==
    \/ \E endpoint \in { "recommend", "rerank" } : RejectInvalid(endpoint)
    \/ \E qdata \in Questionnaires, s \in SimsFor(CatalogSize) : RecommendStart(qdata, s)
    \/ \E qdata \in Questionnaires, k \in KParams, timeout \in TimeoutParams,
          s \in SimsFor(CatalogSize) : RerankStart(qdata, k, timeout, s)
    \/ \E reply \in EngineCallReplies : EngineRerank(reply)
    \/ RecommendFinish
    \/ \E reply \in ViewCallReplies : RerankFinish(reply)
    \/ NextRequest

Spec == Init /\ [][Next]_vars

\* the recommend endpoint alone; it does not read settings.OPENAI_API_KEY
InitRecommend ==
    /\ Init
    /\ settings_key = FALSE

NextRecommend ==
    \/ RejectInvalid("recommend")
    \/ \E qdata \in Questionnaires, s \in SimsFor(CatalogSize) : RecommendStart(qdata, s)
    \/ \E reply \in EngineCallReplies : EngineRerank(reply)
    \/ RecommendFinish
    \/ NextRequest

SpecRecommend == InitRecommend /\ [][NextRecommend]_vars

\* _safe_score_to_percentage applied to one score
InitSpecPct ==
    /\ InitPct
    /\ perfumes_json = Unreadable
    /\ env_key = FALSE
    /\ settings_key = FALSE
    /\ objs = << >>
    /\ engine_instance = 0
    /\ RequestAtRest
    /\ ThreadsAtRest
    /\ TextAtRest

NextPct ==
    ConvertScore
        /\ UNCHANGED << cfg_vars, objs, engine_instance, req_vars, thr_vars, rec_vars, text_vars >>

SpecPct == InitSpecPct /\ [][NextPct]_vars

\* request-handler threads racing through get_engine
InitSpecCache ==
    /\ InitCache
    /\ RecAtRest
    /\ perfumes_json \in SmallCatalogFiles
    /\ env_key = FALSE
    /\ settings_key = FALSE
    /\ RequestAtRest
    /\ PctAtRest
    /\ TextAtRest

NextCache ==
    \/ \E t \in Threads : CallGetEngine(t)
    \/ \E t \in Threads : CheckInstance(t)
    \/ \E t \in Threads : LoadPerfumes(t)
    \/ \E t \in Threads : InitPerfumes(t)
    \/ \E t \in Threads : InitFit(t)
    \/ \E t \in Threads : InitPrecompute(t)
    \/ \E t \in Threads : AssignInstance(t)
    \/ \E t \in Threads : ReturnInstance(t)
    \/ \E t \in Threads : FinishHandler(t)

SpecCache == InitSpecCache /\ [][NextCache]_vars

(***************************************************************************)
(* Claims about the engine cache (SpecCache).                              *)
(***************************************************************************)
\* C4: over any interleaving of get_engine calls, PerfumeEngine is constructed
\* (catalog loaded and TF-IDF fitted) at most once, and every caller receives
\* that same instance.
EngineConstructedAtMostOnce ==
    /\ Cardinality({ i \in DOMAIN objs : objs[i].matrix # NotFitted }) <= 1
    /\ \A t, u \in Threads : (tret[t] # 0 /\ tret[u] # 0) => tret[t] = tret[u]

\* C5: an engine reference obtained through get_engine, and the cached
\* reference itself, always designate an object whose perfumes list, fitted
\* matrix, perfume_is_very_sweet and perfume_has_oud lists are complete, with
\* one entry per catalog item.
NoPartiallyBuiltEngineObserved ==
    LET Complete(i) ==
            /\ FullyBuilt(objs[i])
            /\ Len(objs[i].perfumes) = Len(perfumes_json.items)
    IN  /\ engine_instance # 0 => Complete(engine_instance)
        /\ \A t \in Threads : tret[t] # 0 => Complete(tret[t])

\* C5 witness: one handler holds the engine it obtained while another handler
\* is in the middle of building one.
ReaderDuringBuild ==
    \E t, u \in Threads :
        /\ tpc[t] = "done"
        /\ tret[t] # 0
        /\ tpc[u] \in { "fit", "precompute" }
        /\ Len(objs[tself[u]].perfumes) > 0

(***************************************************************************)
(* Claims about _safe_score_to_percentage (SpecPct).                       *)
(***************************************************************************)
\* C9: the percentage of every score is an integer in 0..100; +infinity gives
\* 100, -infinity 0, a missing score 0, and a finite score s gives the integer
\* nearest to s*100 (a tie going to the even one) clamped into 0..100, so every
\* negative score gives 0 and every score of 1 or more gives 100.
PercentageIsClampedRounding ==
    pct_out # NoPct =>
        /\ pct_out \in 0..100
        /\ score_in.t = "None" => pct_out = 0
        /\ score_in.t = "inf" => pct_out = (IF score_in.neg THEN 0 ELSE 100)
        /\ score_in.t = "float" =>
              LET v == score_in.v
                  d == 10 * pct_out - v
              IN  /\ v < 0 => pct_out = 0
                  /\ v >= 1000 => pct_out = 100
                  /\ v \in 0..1000 =>
                        /\ d \in (0 - 5)..5
                        /\ d \in { 0 - 5, 5 } => pct_out % 2 = 0

\* C9 witness: a negative finite score has been converted.
NegativeScoreConverted ==
    /\ pct_out # NoPct
    /\ score_in.t = "float"
    /\ score_in.v < 0 - 5

(***************************************************************************)
(* Claims about the two endpoints (Spec).                                  *)
(***************************************************************************)
\* a recommend_rerank request has been answered with a rankings response
RerankAnswered ==
    /\ pc = "responded"
    /\ req.endpoint = "rerank"
    /\ response.kind = "response"
    /\ response.status = 200

\* C1: whenever recommend_rerank answers with fallback = true, whatever made
\* it fall back, its rankings are exactly the top-K local candidates in local
\* rank order, each with round(score*100) clamped to 0..100 and no reasons.
FallbackIsLocalTopK ==
    (RerankAnswered /\ response.fallback) =>
        LET e == objs[engine_instance]
            top == PySlice(ranking.idx_sorted, req.top_k)
        IN  response.rankings =
                [ i \in DOMAIN top |->
                    [ id |-> e.perfumes[top[i]].id,
                      matchPercentage |->
                          safe_score_to_percentage(Float(ranking.adjusted_scores[top[i]])),
                      reasons |-> << >> ] ]

\* C2: a recommend_rerank request carrying a valid profile is always answered
\* with a complete rankings response; no exception escapes the handler.
RerankNeverRaises ==
    (pc = "responded" /\ req.endpoint = "rerank" /\ req.valid) =>
        /\ response.kind = "response"
        /\ response.status = 200
        /\ response.fallback \in BOOLEAN
        /\ Len(response.rankings) >= 0

\* C3: when the external call of recommend_rerank succeeds, the rankings hold
\* every top-K candidate exactly once and nothing else; a candidate the service
\* ranked carries the service's percentage (clamped to 0..100) and reasons, and
\* every other candidate its local percentage and no reasons.
PartialSuccessKeepsServiceRanks ==
    (RerankAnswered /\ ~response.fallback) =>
        LET candidates == PySlice(baseline, req.top_k)
            rk == response.rankings
            Same(x, y) == PyInt(x.id) = PyInt(y.id)
            FromService(r) == { i \in DOMAIN ai_reply.items : Same(ai_reply.items[i], r) }
            First(S) == CHOOSE i \in S : \A j \in S : i <= j
        IN  /\ \A c \in DOMAIN candidates :
                Cardinality({ i \in DOMAIN rk : Same(rk[i], candidates[c]) }) = 1
            /\ \A i \in DOMAIN rk : \E c \in DOMAIN candidates : Same(rk[i], candidates[c])
            /\ \A i \in DOMAIN rk :
                IF FromService(rk[i]) = {}
                THEN \E c \in DOMAIN candidates :
                        /\ Same(rk[i], candidates[c])
                        /\ rk[i].matchPercentage =
                              safe_score_to_percentage(Float(candidates[c].score))
                        /\ rk[i].reasons = << >>
                ELSE LET item == ai_reply.items[First(FromService(rk[i]))]
                     IN  /\ rk[i].matchPercentage = ClampView(item.matchPercentage)
                         /\ rk[i].reasons = IF item.reasons.list
                                            THEN PySlice(item.reasons.items, 3)
                                            ELSE << >>

\* C6: handling one request issues at most one call to the external ranking
\* service.
AtMostOneExternalCall == external_calls <= 1

\* C7: the local ranking is the stable descending sort by adjusted score: of two
\* items the one with the greater score comes first, and with equal scores the
\* one earlier in the catalog; no item left out of the result goes before one
\* that is in it.
LocalRankingIsStableSort ==
    LET r == ranking.idx_sorted
        score(i) == ranking.adjusted_scores[i]
        Precedes(i, j) == score(i) > score(j) \/ (score(i) = score(j) /\ i < j)
    IN  /\ \A a, b \in DOMAIN r : a < b => Precedes(r[a], r[b])
        /\ \A a \in DOMAIN r :
             \A j \in DOMAIN ranking.adjusted_scores \ Range(r) : Precedes(r[a], j)

\* C7 witness: two items of equal adjusted score are both in the local ranking.
TieInLocalRanking ==
    \E a, b \in DOMAIN ranking.idx_sorted :
        /\ a < b
        /\ ranking.adjusted_scores[ranking.idx_sorted[a]]
              = ranking.adjusted_scores[ranking.idx_sorted[b]]

\* C8: with limit L and a catalog of N items, the results of
\* PerfumeEngine.recommend and those returned by the recommend endpoint have
\* exactly min(L, N) entries, whatever the external service answered.
ResultLengthIsMinLimitCatalog ==
    LET expected == Min(req.qdata.limit, CatalogSize)
    IN  /\ pc = "baseline" => Len(baseline) = expected
        /\ ( /\ pc = "responded"
             /\ req.endpoint = "recommend"
             /\ response.kind = "response"
             /\ response.status = 200 ) => Len(response.results) = expected

ReasonsOnlyFromService ==
    /\ pc = "baseline" =>
          \A i \in DOMAIN baseline :
              baseline[i].reasons # << >> =>
                  \E j \in DOMAIN engine_rankings :
                      /\ engine_rankings[j].id = baseline[i].id
                      /\ engine_rankings[j].reasons = baseline[i].reasons
    /\ RerankAnswered =>
          \A i \in DOMAIN response.rankings :
              response.rankings[i].reasons # << >> =>
                  /\ ~response.fallback
                  /\ ai_reply.kind = "rankings"
                  /\ \E j \in DOMAIN ai_reply.items :
                        /\ PyInt(ai_reply.items[j].id) = PyInt(response.rankings[i].id)
                        /\ ai_reply.items[j].reasons.list
    /\ ( /\ pc = "responded"
         /\ req.endpoint = "recommend"
         /\ response.kind = "response"
         /\ response.status = 200 ) =>
            \A i \in DOMAIN response.results :
                response.results[i].reasons # << >> =>
                    response.results[i] = baseline[i]

\* C11 witness: the engine has returned one entry with the reasons the service
\* gave and one entry filled in from the local scores.
ServiceAndLocalEntries ==
    /\ pc = "baseline"
    /\ \E i, j \in DOMAIN baseline :
          /\ baseline[i].reasons # << >>
          /\ baseline[j].reasons = << >>
          /\ \A k \in DOMAIN engine_rankings : engine_rankings[k].id # baseline[j].id

(***************************************************************************)
(* The local scoring of PerfumeEngine.recommend as a function of the       *)
(* catalog, the questionnaire and the similarities (SpecScore).            *)
(***************************************************************************)
\* catalog records for the scoring: what their notes and intensity are
ScoreKinds ==
    { "vanilla_strong", "citrus_soft", "vanilla_oud_very_strong",
      "vanilla_soft", "rose_moderate" }

ScoreItem(i, kind) ==
    [ id          |-> IntId(i),
      family      |-> None,
      gender      |-> None,
      main_accords |-> IF kind = "vanilla_oud_very_strong" THEN << <<"oud">> >> ELSE << >>,
      top_notes   |-> IF kind = "rose_moderate" THEN << <<"roz">> >> ELSE << >>,
      heart_notes |-> << >>,
      base_notes  |-> CASE kind \in { "vanilla_strong", "vanilla_soft" } -> << <<"vanil">> >>
                        [] kind = "vanilla_oud_very_strong" -> << <<"vnil">> >>
                        [] kind = "citrus_soft" -> << <<"toranj">> >>
                        [] OTHER -> << >>,
      seasons     |-> << >>,
      occasions   |-> << >>,
      intensity   |-> CASE kind = "vanilla_strong" -> "strong"
                        [] kind = "vanilla_oud_very_strong" -> "very_strong"
                        [] kind = "rose_moderate" -> "moderate"
                        [] OTHER -> "soft" ]

ScoreCatalogFiles ==
    { [ readable |-> TRUE, items |-> << ScoreItem(1, a) >> ] : a \in ScoreKinds }
    \cup { [ readable |-> TRUE, items |-> << ScoreItem(1, a), ScoreItem(2, b) >> ] :
             a \in ScoreKinds, b \in ScoreKinds }

\* the catalog of the scenario: vanilla and strong, then citrus and soft
ScenarioCatalog ==
    [ readable |-> TRUE,
      items |-> << ScoreItem(1, "vanilla_strong"), ScoreItem(2, "citrus_soft") >> ]

\* validated questionnaires with the fields the penalties are about
ScoreQuestionnaires ==
    [ limit : { DefaultLimit },
      avoid_very_sweet : BOOLEAN,
      avoid_oud : BOOLEAN,
      contexts : { << >>, << "office" >> },
      noteDislikes : { << >>, << "sweet" >>, << "citrus", "woody" >> },
      intensity : { << >>, << "light" >>, << "strong" >>, << "light", "strong" >> } ]

InitScore ==
    /\ perfumes_json \in ScoreCatalogFiles
    /\ env_key = FALSE
    /\ settings_key = FALSE
    /\ objs = << >>
    /\ engine_instance = 0
    /\ RequestAtRest
    /\ ThreadsAtRest
    /\ PctAtRest
    /\ TextAtRest

NextScore ==
    \E qdata \in ScoreQuestionnaires, s \in SimsFor(CatalogSize) : RecommendStart(qdata, s)

SpecScore == InitScore /\ [][NextScore]_vars

\* the engine has scored the catalog for the questionnaire in req
Scored ==
    /\ pc = "scored"
    /\ engine_instance # 0

\* the item's labels as the file holds them, normalized
NormalizedLabels(idx) ==
    LET raw == perfumes_json.items[idx]
        merged == raw.top_notes \o raw.heart_notes \o raw.base_notes \o raw.main_accords
    IN  { normalize_note(merged[i]) : i \in DOMAIN merged }

\* a representative label of a disliked category is among the item's labels
DislikedOverlap(qdata, idx) ==
    \E c \in Range(qdata.noteDislikes) :
        \E label \in NOTE_CATEGORY_TO_TAGS[c] :
            normalize_note(label) \in NormalizedLabels(idx)

\* the intensity deduction the specification describes, in thousandths
SpecIntensityDeduction(qdata, idx) ==
    LET item == perfumes_json.items[idx].intensity
    IN  (IF "light" \in Range(qdata.intensity) /\ item \in { "strong", "very_strong" }
         THEN 150 ELSE 0)
        + (IF "strong" \in Range(qdata.intensity) /\ item = "soft" THEN 100 ELSE 0)

LegacyDeduction(qdata, idx) ==
    LET item == perfumes_json.items[idx].intensity
    IN  (IF qdata.avoid_very_sweet /\ NormalizedLabels(idx) \cap sweet_targets # {}
         THEN 200 ELSE 0)
        + (IF qdata.avoid_oud /\ NormalizedLabels(idx) \cap oud_targets # {}
           THEN 200 ELSE 0)
        + (IF "office" \in Range(qdata.contexts) /\ item \in { "strong", "very_strong" }
           THEN 150 ELSE 0)

\* C12: with no other rule in play, an item some disliked category's label is
\* found in scores its base similarity minus 0.2, once however many categories
\* or labels overlap, and an item with no overlap scores its base similarity.
DislikedNotePenaltyOnce ==
    ( /\ Scored
      /\ LegacyDeduction(req.qdata, 1) = 0
      /\ req.qdata.intensity = << >> ) =>
        ranking.adjusted_scores[1] =
            sims[1] - (IF DislikedOverlap(req.qdata, 1) THEN 200 ELSE 0)

\* C13: with no other rule in play, a strong or very strong item scores 0.15
\* less when "light" is desired, a soft item 0.1 less when "strong" is
\* desired, and every other combination leaves the base similarity.
IntensityPenalty ==
    ( /\ Scored
      /\ LegacyDeduction(req.qdata, 1) = 0
      /\ req.qdata.noteDislikes = << >> ) =>
        ranking.adjusted_scores[1] = sims[1] - SpecIntensityDeduction(req.qdata, 1)

\* C14: in the scenario (vanilla strong item, citrus soft item, "sweet"
\* disliked, "light" desired) item 1 loses 0.2 and 0.15, item 2 loses nothing,
\* and with equal base similarities item 2 is ranked above item 1.
ScenarioRanksCitrusFirst ==
    ( /\ Scored
      /\ perfumes_json = ScenarioCatalog
      /\ req.qdata.noteDislikes = << "sweet" >>
      /\ req.qdata.intensity = << "light" >>
      /\ LegacyDeduction(req.qdata, 1) = 0 ) =>
        /\ ranking.adjusted_scores[1] = sims[1] - 350
        /\ ranking.adjusted_scores[2] = sims[2]
        /\ sims[1] = sims[2] => ranking.idx_sorted = << 2, 1 >>

\* C20: the adjusted score of every item is its base similarity minus 0.2 for
\* avoid_very_sweet on a very sweet item, minus 0.2 for avoid_oud on an
\* oud-bearing item, minus 0.15 for the office context on a strong or very
\* strong item, each at most once and all of them together; the flags of the
\* engine say whether the item's normalized labels meet the sweet / oud set.
LegacyPenaltiesAdditive ==
    Scored =>
        \A idx \in DOMAIN sims :
            /\ ranking.adjusted_scores[idx] = sims[idx] - LegacyDeduction(req.qdata, idx)
            /\ objs[engine_instance].perfume_is_very_sweet[idx]
                  = (NormalizedLabels(idx) \cap sweet_targets # {})
            /\ objs[engine_instance].perfume_has_oud[idx]
                  = (NormalizedLabels(idx) \cap oud_targets # {})

\* C20 witness: an item has lost all three legacy deductions at once.
ThreeLegacyPenalties ==
    /\ Scored
    /\ \E idx \in DOMAIN sims :
          /\ req.qdata.avoid_very_sweet
          /\ req.qdata.avoid_oud
          /\ "office" \in Range(req.qdata.contexts)
          /\ ranking.adjusted_scores[idx] = sims[idx] - 550

(***************************************************************************)
(* Claims about the empty catalog (SpecRecommend).                         *)
(***************************************************************************)
EmptyCatalog ==
    /\ perfumes_json.readable
    /\ perfumes_json.items = << >>

\* C15: with a catalog of zero items the construction of the engine raises and
\* the error reaches the caller of get_engine: no engine is ever built from
\* zero items or cached, and a valid recommend request is answered by that
\* error, never by a response with results.
EmptyCatalogNeverServed ==
    /\ \A i \in DOMAIN objs : objs[i].perfumes # << >>
    /\ EmptyCatalog =>
          /\ engine_instance = 0
          /\ pc \in { "idle", "responded" }
          /\ (pc = "responded" /\ req.valid) => response = Exception("get_engine")

\* C15 witness: a valid recommend request on the empty catalog has ended with
\* the error of the constructor.
EmptyCatalogRequestFailed ==
    /\ EmptyCatalog
    /\ pc = "responded"
    /\ req.endpoint = "recommend"
    /\ req.valid
    /\ response = Exception("get_engine")

(***************************************************************************)
(* _normalize_note applied to a label, and again to its result (SpecNorm). *)
(***************************************************************************)
\* longest label, in symbols
MaxLabelLen == 3

\* what a label is made of: words, a blank, a punctuation mark
LabelSymbols == { "vnil", "sandal", "sefid", "roz", " ", "." }

RECURSIVE SeqsUpTo(_, _)
SeqsUpTo(S, n) ==
    IF n = 0 THEN { << >> }
    ELSE LET shorter == SeqsUpTo(S, n - 1)
         IN  shorter \cup { Append(q, x) : q \in shorter, x \in S }

NoteLabels == SeqsUpTo(LabelSymbols, MaxLabelLen)

InitNorm ==
    /\ note_in \in NoteLabels
    /\ note_out = << >>
    /\ ItemAtRest
    /\ q_in = NoQuestionnaire
    /\ profile_text = << >>
    /\ perfumes_json = Unreadable
    /\ env_key = FALSE
    /\ settings_key = FALSE
    /\ objs = << >>
    /\ engine_instance = 0
    /\ RequestAtRest
    /\ ThreadsAtRest
    /\ PctAtRest

\* note_out collects the results: of the label, then of the first result
NormalizeNote ==
    /\ Len(note_out) < 2
    /\ note_out' = Append(note_out,
                          normalize_note(IF note_out = << >> THEN note_in
                                         ELSE note_out[Len(note_out)]))
    /\ UNCHANGED << note_in, q_in, profile_text, item_vars >>
    /\ UNCHANGED << cfg_vars, objs, engine_instance, req_vars, thr_vars, rec_vars, pct_vars >>

SpecNorm == InitNorm /\ [][NormalizeNote]_vars

\* C16: note normalization is idempotent: normalizing the result of
\* _normalize_note again gives the same result.
NormalizationIdempotent ==
    Len(note_out) = 2 => note_out[2] = note_out[1]

(***************************************************************************)
(* questionnaire_to_profile_text (vectorizer.py 91-137) and the tables of  *)
(* matcher/bridge_config.py it reads (SpecProfile).  A term is a tuple:     *)
(* <<"note", n>> stands for "note_" followed by the label n, and            *)
(* <<"axis_sweet", << >> >> for the bare token; the text is the sequence  *)
(* of its terms.                                                           *)
(***************************************************************************)
MOOD_TO_NOTE_TAGS ==
    [ fresh  |-> << <<"toranj">>, <<"limu">>, <<"gerip", " ", "forut">>, <<"oqyanusi">>, <<"nana">> >>,
      sweet  |-> << <<"vanil">>, <<"karamel">>, <<"peralin">>, <<"asal">>, <<"tonka">> >>,
      warm   |-> << <<"darchin">>, <<"felfel">>, <<"kahroba">>, <<"advie", ".", "i">> >>,
      floral |-> << <<"roz">>, <<"yas">>, <<"shokufe", " ", "porteqal">>, <<"gol", " ", "sadtumani">> >>,
      woody  |-> << <<"chub", " ", "sandal">>, <<"sedr">>, <<"oud">>, <<"khas", " ", "khas">> >> ]

TIME_TO_OCCASION_TAGS ==
    [ day     |-> << "daytime" >>,
      night   |-> << "night" >>,
      anytime |-> << "daytime", "night" >> ]

STYLE_TO_GENDER_TOKENS ==
    [ feminine  |-> << <<"gender", <<"female">> >> >>,
      masculine |-> << <<"gender", <<"male">> >> >>,
      unisex    |-> << <<"gender", <<"unisex">> >> >>,
      any       |-> << >> ]

FRESH_NOTES ==
    << <<"toranj">>, <<"limu">>, <<"nana">>, <<"oqyanusi">>, <<"sib", " ", "sabz">> >>

CONTEXT_TO_NOTE_TAGS ==
    [ office        |-> << <<"khonak">>, <<"molayem">> >>,
      casual_day    |-> << >>,
      date_night    |-> << <<"vanil">>, <<"roz">>, <<"kahroba">> >>,
      club          |-> << <<"oud">>, <<"kheyli", " ", "qavi">> >>,
      special_event |-> << <<"chub", " ", "sandal">>, <<"moshk">>, <<"kahroba">> >> ]

CONTEXT_TO_OCCASION_TAGS ==
    [ office        |-> << "office" >>,
      casual_day    |-> << "everyday" >>,
      date_night    |-> << "date" >>,
      club          |-> << "night_out" >>,
      special_event |-> << "formal" >> ]

\* table.get(key, [])
TableGet(table, key) == IF key \in DOMAIN table THEN table[key] ELSE << >>

\* the appends of nested loops, in order
RECURSIVE Concat(_)
Concat(seqs) == IF seqs = << >> THEN << >> ELSE Head(seqs) \o Concat(Tail(seqs))

\* "for mood in q.get("moods", [])"
MoodParts(q) ==
    Concat([ i \in DOMAIN q.moods |->
        LET tags == TableGet(MOOD_TO_NOTE_TAGS, q.moods[i])
        IN  Concat([ j \in DOMAIN tags |->
                << << "note", normalize_note(tags[j]) >>,
                   << "accord", normalize_note(tags[j]) >> >> ]) ])

\* "for ctx in q.get("contexts", [])"
ContextParts(q) ==
    Concat([ i \in DOMAIN q.contexts |->
        LET tags == TableGet(CONTEXT_TO_NOTE_TAGS, q.contexts[i])
            occs == TableGet(CONTEXT_TO_OCCASION_TAGS, q.contexts[i])
        IN  [ j \in DOMAIN tags |-> << "note", normalize_note(tags[j]) >> ]
            \o [ j \in DOMAIN occs |-> << "occasion", << occs[j] >> >> ] ])

\* a variant that repeats the axis as often as the value says
AxisRepeatsUnclamped(value) == value

\* max(0, min(5, int(value or 0))); an absent key counts as 0
AxisRepeats(value) == Max(0, Min(5, value))

\* "for _ in range(sweetness)" and "for _ in range(freshness)"
AxisParts(axis, value, notes) ==
    Concat([ k \in 1..AxisRepeats(value) |->
        << << axis, << >> >> >>
        \o [ j \in DOMAIN notes |-> << axis \o "_note", normalize_note(notes[j]) >> ] ])

StrengthParts(q) ==
    IF q.strength # None
    THEN << << "intensity", normalize_token(<< q.strength >>) >> >> ELSE << >>

GenderParts(q) ==
    IF q.gender # None /\ q.gender # "unisex" THEN << << "gender", << q.gender >> >> >> ELSE << >>

questionnaire_to_profile_text(q) ==
    MoodParts(q) \o ContextParts(q)
    \o AxisParts("axis_sweet", q.sweetness, SWEET_NOTES)
    \o AxisParts("axis_fresh", q.freshness, FRESH_NOTES)
    \o StrengthParts(q) \o GenderParts(q)

\* the dictionaries the function is applied to; None and 0 are absent keys
ProfileQuestionnaires ==
    [ limit : { DefaultLimit },
      moods : { << >>, << "sweet" >>, << "warm", "woody" >> },
      contexts : { << >>, << "office" >>, << "club" >> },
      times : { << >>, << "day" >>, << "anytime" >> },
      styles : { << >>, << "any" >>, << "feminine" >>, << "masculine" >>, << "unisex" >> },
      noteDislikes : { << >>, << "sweet" >> },
      sweetness : { 0, 3, 7 },
      freshness : { 0 - 1, 0, 1 },
      strength : { None, "very_strong" },
      gender : { None, "male", "unisex" } ]

InitProfile ==
    /\ q_in \in ProfileQuestionnaires
    /\ profile_text = << >>
    /\ note_in = << >>
    /\ note_out = << >>
    /\ ItemAtRest
    /\ perfumes_json = Unreadable
    /\ env_key = FALSE
    /\ settings_key = FALSE
    /\ objs = << >>
    /\ engine_instance = 0
    /\ RequestAtRest
    /\ ThreadsAtRest
    /\ PctAtRest

\* profile_text holds the text the call returned
BuildProfileText ==
    /\ profile_text = << >>
    /\ profile_text' = << questionnaire_to_profile_text(q_in) >>
    /\ UNCHANGED << note_in, note_out, q_in, item_vars >>
    /\ UNCHANGED << cfg_vars, objs, engine_instance, req_vars, thr_vars, rec_vars, pct_vars >>

SpecProfile == InitProfile /\ [][BuildProfileText]_vars

\* the terms of the returned text
ProfileTerms == Range(profile_text[1])

\* C17: the text for a questionnaire whose times hold "anytime" has both the
\* term occasion_daytime and the term occasion_night.
AnytimeGivesDayAndNight ==
    ( /\ profile_text # << >>
      /\ "anytime" \in Range(q_in.times) ) =>
        \A j \in DOMAIN TIME_TO_OCCASION_TAGS["anytime"] :
            << "occasion", << TIME_TO_OCCASION_TAGS["anytime"][j] >> >> \in ProfileTerms

\* C18: with no legacy gender, the text for the only style "any" has no term
\* that starts with gender_, and the text for feminine, masculine or unisex
\* has the gender term STYLE_TO_GENDER_TOKENS gives that style.
StyleGivesConfiguredGender ==
    ( /\ profile_text # << >>
      /\ q_in.gender = None
      /\ Len(q_in.styles) = 1 ) =>
        IF q_in.styles[1] = "any"
        THEN \A term \in ProfileTerms : term[1] # "gender"
        ELSE \A j \in DOMAIN STYLE_TO_GENDER_TOKENS[q_in.styles[1]] :
                 STYLE_TO_GENDER_TOKENS[q_in.styles[1]][j] \in ProfileTerms

(***************************************************************************)
(* QuestionnaireSerializer (api/serializers.py 60-141) and the two         *)
(* handlers' "if not serializer.is_valid()" (SpecValidate).                *)
(***************************************************************************)
MOOD_CHOICES == { "fresh", "sweet", "warm", "floral", "woody" }
MOMENT_CHOICES == { "daily", "evening", "outdoor", "gift" }
TIME_CHOICES == { "day", "night", "anytime" }
INTENSITY_CHOICES == { "light", "medium", "strong" }
STYLE_CHOICES == { "feminine", "masculine", "unisex", "any" }
NOTE_CHOICES ==
    { "citrus", "floral", "fruity", "woody", "spicy", "sweet", "gourmand", "green",
      "oriental", "resinous", "aquatic", "earthy", "musky", "animalic", "powdery",
      "tobacco", "leather" }
LEGACY_CONTEXT_CHOICES == { "office", "casual_day", "date_night", "club", "special_event" }
LEGACY_STRENGTH_CHOICES == { "soft", "moderate", "strong", "very_strong" }
LEGACY_GENDER_CHOICES == { "male", "female", "unisex" }

\* sweetness and freshness: min_value 1, max_value 5, default 3
SliderMin == 1
SliderMax == 5
DefaultSlider == 3

\* the ListField(child=ChoiceField(choices=...)) fields
ListFieldChoices ==
    [ moods        |-> MOOD_CHOICES,
      moments      |-> MOMENT_CHOICES,
      times        |-> TIME_CHOICES,
      intensity    |-> INTENSITY_CHOICES,
      styles       |-> STYLE_CHOICES,
      noteLikes    |-> NOTE_CHOICES,
      noteDislikes |-> NOTE_CHOICES,
      contexts     |-> LEGACY_CONTEXT_CHOICES ]

\* a list field fails when one of its elements is no choice of the child
ListFieldErrors(data) ==
    { f \in DOMAIN ListFieldChoices :
        \E i \in DOMAIN data[f] : data[f][i] \notin ListFieldChoices[f] }

\* IntegerField(min_value, max_value)
IntegerFieldErrors(data, f, lo, hi) ==
    IF data[f] < lo \/ data[f] > hi THEN { f } ELSE {}

\* ChoiceField(choices, allow_null=True)
ChoiceFieldErrors(data, f, choices) ==
    IF data[f] # None /\ data[f] \notin choices THEN { f } ELSE {}

\* a variant that validates the list fields only
serializer_errors_lists_only(data) == ListFieldErrors(data)

\* serializer.errors: the fields that failed
serializer_errors(data) ==
    ListFieldErrors(data)
    \cup IntegerFieldErrors(data, "sweetness", SliderMin, SliderMax)
    \cup IntegerFieldErrors(data, "freshness", SliderMin, SliderMax)
    \cup ChoiceFieldErrors(data, "strength", LEGACY_STRENGTH_CHOICES)
    \cup ChoiceFieldErrors(data, "gender", LEGACY_GENDER_CHOICES)
    \cup IntegerFieldErrors(data, "limit", MinLimit, MaxLimit)

\* serializer.validated_data of a payload without errors: every field the
\* payload leaves out has its default, so the payload is written in full
validated_data(data) == data

\* the payload that has every default
BasePayload ==
    [ moods |-> << >>, moments |-> << >>, times |-> << >>, intensity |-> << >>,
      styles |-> << >>, noteLikes |-> << >>, noteDislikes |-> << >>,
      contexts |-> << >>,
      sweetness |-> DefaultSlider, freshness |-> DefaultSlider,
      strength |-> None, gender |-> None,
      avoid_very_sweet |-> FALSE, avoid_oud |-> FALSE,
      limit |-> DefaultLimit ]

\* strings no choice set has: one made up, one that is a key of
\* NOTE_CATEGORY_TO_TAGS but no note choice
OutsideValues == { "bogus", "herbal" }

\* payloads that differ from the base in one field
OneFieldPayloads ==
    { BasePayload }
    \cup UNION { { [ BasePayload EXCEPT ![f] = v ] :
                     v \in { << c >> : c \in ListFieldChoices[f] \cup OutsideValues }
                           \cup { << CHOOSE c \in ListFieldChoices[f] : TRUE, "bogus" >> } } :
                 f \in DOMAIN ListFieldChoices }
    \cup { [ BasePayload EXCEPT !.limit = v ] :
             v \in { MinLimit - 1, MinLimit, MaxLimit, MaxLimit + 1 } }
    \cup { [ BasePayload EXCEPT !.sweetness = v ] :
             v \in { SliderMin - 1, SliderMin, SliderMax, SliderMax + 1 } }
    \cup { [ BasePayload EXCEPT !.freshness = v ] : v \in { SliderMin - 1, SliderMax + 1 } }
    \cup { [ BasePayload EXCEPT !.strength = v ] : v \in { "soft", "bogus" } }
    \cup { [ BasePayload EXCEPT !.gender = v ] : v \in { "female", "bogus" } }
    \cup { [ BasePayload EXCEPT !.avoid_very_sweet = TRUE ],
           [ BasePayload EXCEPT !.avoid_oud = TRUE ] }

\* payloads that differ from the base in at most two fields
Payloads ==
    { [ f \in DOMAIN BasePayload |-> IF b[f] # BasePayload[f] THEN b[f] ELSE a[f] ] :
        a \in OneFieldPayloads, b \in OneFieldPayloads }

\* Either endpoint, from the request to the 400 answer or to the local scoring
PostQuestionnaire(endpoint, data, s) ==
    IF serializer_errors(data) # {}
    THEN /\ pc = "idle"
         /\ pc' = "responded"
         /\ req' = [ endpoint |-> endpoint, valid |-> FALSE, data |-> data ]
         /\ response' = [ kind |-> "response", status |-> 400,
                          errors |-> serializer_errors(data) ]
         /\ UNCHANGED << sims, ranking, baseline, engine_rankings, ai_reply, external_calls >>
         /\ UNCHANGED << objs, engine_instance, not_req_vars >>
    ELSE IF endpoint = "recommend"
         THEN RecommendStart(validated_data(data), s)
         ELSE RerankStart(validated_data(data), IntId(DefaultK), IntId(DefaultTimeoutMs), s)

InitValidate ==
    /\ perfumes_json = CatalogFile(MaxCatalog, TRUE)
    /\ env_key = FALSE
    /\ settings_key = FALSE
    /\ objs = << >>
    /\ engine_instance = 0
    /\ RequestAtRest
    /\ ThreadsAtRest
    /\ PctAtRest
    /\ TextAtRest

NextValidate ==
    /\ pc = "idle"
    /\ \E endpoint \in { "recommend", "rerank" }, data \in Payloads :
          PostQuestionnaire(endpoint, data, [ i \in 1..CatalogSize |-> 1000 ])

SpecValidate == InitValidate /\ [][NextValidate]_vars

\* the payload has, in field f, something the serializer's declaration excludes
OutOfDeclaration(data, f) ==
    CASE f \in DOMAIN ListFieldChoices ->
            \E i \in DOMAIN data[f] : data[f][i] \notin ListFieldChoices[f]
      [] f = "limit" -> data[f] \notin 1..50
      [] f \in { "sweetness", "freshness" } -> data[f] \notin 1..5
      [] OTHER -> FALSE

CheckedFields == DOMAIN ListFieldChoices \cup { "limit", "sweetness", "freshness" }

\* C19: a payload with a value outside the choice set in a list field, or with
\* a limit or a slider out of range, is answered 400 by either endpoint with an
\* error for that field, before any engine is fetched or asked; no payload of
\* that kind reaches the scoring, and a list field holding choices only (each
\* of the 17 note categories for noteLikes and noteDislikes) has no error.
InvalidPayloadRejected ==
    /\ (pc = "responded" /\ ~req.valid) =>
          /\ response.kind = "response"
          /\ response.status = 400
          /\ \A f \in CheckedFields :
                OutOfDeclaration(req.data, f) <=> f \in response.errors
          /\ objs = << >>
          /\ engine_instance = 0
          /\ ranking = NoRanking
          /\ external_calls = 0
    /\ pc = "scored" =>
          \A f \in CheckedFields : ~OutOfDeclaration(req.qdata, f)

\* C19 witness: a payload with an unknown mood and a valid note category has
\* been answered 400 with an error for moods and none for noteLikes.
UnknownMoodRejected ==
    /\ pc = "responded"
    /\ ~req.valid
    /\ req.data.moods = << "bogus" >>
    /\ req.data.noteLikes = << "leather" >>
    /\ response.errors = { "moods" }

(***************************************************************************)
(* The local scoring followed by the results of PerfumeEngine.recommend    *)
(* without an API key (SpecRank).                                          *)
(***************************************************************************)
NextRank ==
    \/ NextScore
    \/ \E reply \in EngineCallReplies : EngineRerank(reply)

SpecRank == InitScore /\ [][NextRank]_vars

\* the base similarity of item idx minus its legacy deductions, not clamped
UnclampedScore(idx) == sims[idx] - LegacyDeduction(req.qdata, idx)

\* the catalog position of the entry's id
PositionOf(entry) ==
    CHOOSE idx \in DOMAIN perfumes_json.items :
        PyStr(perfumes_json.items[idx].id) = entry.id

\* C21: the ranking orders the items by their unclamped adjusted scores, so of
\* two items with different scores the greater one comes first also when both
\* are negative; the score stored in a result is that unclamped score, and the
\* percentage alone is bounded.
RankingUsesUnclampedScores ==
    /\ Scored =>
          /\ \A idx \in DOMAIN sims : ranking.adjusted_scores[idx] = UnclampedScore(idx)
          /\ \A i, j \in DOMAIN ranking.idx_sorted :
                UnclampedScore(ranking.idx_sorted[i]) > UnclampedScore(ranking.idx_sorted[j])
                    => i < j
    /\ (pc = "baseline" /\ engine_rankings = << >>) =>
          /\ Len(baseline) = Len(ranking.idx_sorted)
          /\ \A i \in DOMAIN baseline :
                /\ PositionOf(baseline[i]) = ranking.idx_sorted[i]
                /\ baseline[i].score = ranking.adjusted_scores[ranking.idx_sorted[i]]
                /\ baseline[i].matchPercentage \in 1..100

\* C21 witness: the results hold two items with different negative scores,
\* the greater one first although it is second in the catalog.
NegativeScoresRanked ==
    /\ pc = "baseline"
    /\ Len(baseline) = 2
    /\ baseline[1].score < 0
    /\ baseline[2].score < baseline[1].score
    /\ PositionOf(baseline[1]) = 2

(***************************************************************************)
(* perfume_to_text (vectorizer.py 42-88) applied to one Perfume            *)
(* (SpecItemText).  The tokens are tuples as in the profile text.          *)
(***************************************************************************)
\* seq, n times over: "for _ in range(n)"
Repeat(n, seq) == Concat([ k \in 1..n |-> seq ])

\* a variant that gives every note group the same weight
NoteWeightUniform(group) == 1

\* the range(...) of the loop of each note group; the top notes have no loop
NoteWeight(group) ==
    CASE group = "topnote" -> 1
      [] group = "heartnote" -> 2
      [] group = "basenote" -> 3

\* the loop over one note group: the group's token, then the generic token
NoteParts(group, notes) ==
    Concat([ i \in DOMAIN notes |->
        Repeat(NoteWeight(group),
               << << group, normalize_note(notes[i]) >>,
                  << "note", normalize_note(notes[i]) >> >>) ])

\* "for acc in p.main_accords: ... for _ in range(3)"
AccordParts(p) ==
    Concat([ i \in DOMAIN p.main_accords |->
        Repeat(3, << << "accord", normalize_note(p.main_accords[i]) >> >>) ])

\* "if value: parts.append(kind_value)"
OptionalPart(kind, value) ==
    IF value # None THEN << << kind, normalize_token(<< value >>) >> >> ELSE << >>

\* "for s in p.seasons" and "for o in p.occasions"
PlainParts(kind, values) == [ i \in DOMAIN values |-> << kind, << values[i] >> >> ]

perfume_to_text(p) ==
    OptionalPart("family", p.family)
    \o AccordParts(p)
    \o NoteParts("topnote", p.top_notes)
    \o NoteParts("heartnote", p.heart_notes)
    \o NoteParts("basenote", p.base_notes)
    \o (IF p.gender # None THEN << << "gender", << p.gender >> >> >> ELSE << >>)
    \o PlainParts("season", p.seasons)
    \o PlainParts("occasion", p.occasions)
    \o OptionalPart("intensity", p.intensity)

\* the Perfume objects the function is applied to
TextPerfumes ==
    [ id : { NumStr(1) },
      family : { None, "woody" },
      gender : { None, "female" },
      main_accords : { << >>, << <<"oud">> >>, << <<"vanil">>, <<"sandal">> >> },
      top_notes : { << >>, << <<"roz">> >> },
      heart_notes : { << >>, << <<"yas">> >>, << <<"roz">>, <<"yas">> >> },
      base_notes : { << >>, << <<"vanil">> >>, << <<"vnil">>, <<"vanil">> >>,
                     << <<"vanil">>, <<"oud">> >> },
      seasons : { << >>, << "winter" >> },
      occasions : { << >>, << "date", "evening" >> },
      intensity : { None, "strong" } ]

InitItemText ==
    /\ p_in \in TextPerfumes
    /\ p_text = << >>
    /\ raw_in = << >>
    /\ note_in = << >>
    /\ note_out = << >>
    /\ q_in = NoQuestionnaire
    /\ profile_text = << >>
    /\ perfumes_json = Unreadable
    /\ env_key = FALSE
    /\ settings_key = FALSE
    /\ objs = << >>
    /\ engine_instance = 0
    /\ RequestAtRest
    /\ ThreadsAtRest
    /\ PctAtRest

\* p_text holds the text the call returned
BuildPerfumeText ==
    /\ p_text = << >>
    /\ p_text' = << perfume_to_text(p_in) >>
    /\ UNCHANGED << raw_in, p_in, note_in, note_out, q_in, profile_text >>
    /\ UNCHANGED << cfg_vars, objs, engine_instance, req_vars, thr_vars, rec_vars, pct_vars >>

SpecItemText == InitItemText /\ [][BuildPerfumeText]_vars

\* how many tokens of the returned text are the given token
TokenCount(token) == Cardinality({ k \in DOMAIN p_text[1] : p_text[1][k] = token })

\* how many tokens of the returned text are of the given kind
KindCount(kind) == Cardinality({ k \in DOMAIN p_text[1] : p_text[1][k][1] = kind })

\* how many times the group's token is followed by the generic token of the
\* same label: the generic tokens that come from that group
GenericCount(group) ==
    Cardinality({ k \in DOMAIN p_text[1] :
                    /\ p_text[1][k][1] = group
                    /\ k + 1 \in DOMAIN p_text[1]
                    /\ p_text[1][k + 1] = << "note", p_text[1][k][2] >> })

\* C22 as stated: the generic tokens that come from the base notes are 3 times
\* as many as the distinct base notes.
BaseGenericIsThriceDistinct ==
    (p_text # << >> /\ p_in.base_notes # << >>) =>
        GenericCount("basenote") =
            3 * Cardinality({ normalize_note(p_in.base_notes[i]) : i \in DOMAIN p_in.base_notes })

\* C22: every top note gives 1, every heart note 2 and every base note 3 tokens
\* of its group, each followed by the generic token of the same label; so the
\* generic tokens that come from the base notes are 3 times as many as the
\* entries of the base-note list.
NoteGroupWeights ==
    p_text # << >> =>
        /\ KindCount("topnote") = Len(p_in.top_notes)
        /\ KindCount("heartnote") = 2 * Len(p_in.heart_notes)
        /\ KindCount("basenote") = 3 * Len(p_in.base_notes)
        /\ \A group \in { "topnote", "heartnote", "basenote" } :
              GenericCount(group) = KindCount(group)

\* C22 witness: the text of an item whose two base notes normalize to one
\* label has six generic tokens from the base notes.
TwoBaseNotesOneLabel ==
    /\ p_text # << >>
    /\ Len(p_in.base_notes) = 2
    /\ normalize_note(p_in.base_notes[1]) = normalize_note(p_in.base_notes[2])
    /\ GenericCount("basenote") = 6

\* C23: every main accord gives its accord token exactly 2 times and a
\* generic note token of the same label; an item without accords gives no
\* accord token.
AccordsTwiceAndMirrored ==
    p_text # << >> =>
        /\ KindCount("accord") = 2 * Len(p_in.main_accords)
        /\ \A i \in DOMAIN p_in.main_accords :
              TokenCount(<< "note", normalize_note(p_in.main_accords[i]) >>) > 0

(***************************************************************************)
(* Claims about the legacy sliders and the disliked notes (SpecProfile).   *)
(***************************************************************************)
\* how many tokens of the returned profile text are the given token
ProfileTokenCount(token) ==
    Cardinality({ k \in DOMAIN profile_text[1] : profile_text[1][k] = token })

\* the slider value brought into 0..5
ClampedSlider(v) == IF v < 0 THEN 0 ELSE IF v > 5 THEN 5 ELSE v

\* C24: the text has the axis marker (axis_sweet, axis_fresh) as many times as
\* the slider's value clamped to 0..5 says, and each representative note term
\* of the axis as many times; a missing, null or zero slider gives no term of
\* its axis, and each axis depends on its own slider only.
SliderRepeatsAxisTerms ==
    profile_text # << >> =>
        /\ ProfileTokenCount(<< "axis_sweet", << >> >>) = ClampedSlider(q_in.sweetness)
        /\ \A j \in DOMAIN SWEET_NOTES :
              ProfileTokenCount(<< "axis_sweet_note", normalize_note(SWEET_NOTES[j]) >>)
                  = ClampedSlider(q_in.sweetness)
        /\ ProfileTokenCount(<< "axis_fresh", << >> >>) = ClampedSlider(q_in.freshness)
        /\ \A j \in DOMAIN FRESH_NOTES :
              ProfileTokenCount(<< "axis_fresh_note", normalize_note(FRESH_NOTES[j]) >>)
                  = ClampedSlider(q_in.freshness)

\* C24 witness: a sweetness above the scale has given five axis_sweet markers
\* next to a single axis_fresh marker.
SweetnessClampedToFive ==
    /\ profile_text # << >>
    /\ q_in.sweetness > 5
    /\ q_in.freshness = 1
    /\ ProfileTokenCount(<< "axis_sweet", << >> >>) = 5
    /\ ProfileTokenCount(<< "axis_fresh", << >> >>) = 1

\* the kinds of token the vector model matches on
MatchingKinds == { "note", "accord", "axis_sweet_note", "axis_fresh_note" }

\* C25: for a questionnaire with disliked note categories the text has, for
\* each representative label of a disliked category, a term of that label
\* under a tag of its own, which is none of the matching tags.
DislikesUnderAvoidanceTag ==
    (profile_text # << >> /\ q_in.noteDislikes # << >>) =>
        \A i \in DOMAIN q_in.noteDislikes :
            \A label \in NOTE_CATEGORY_TO_TAGS[q_in.noteDislikes[i]] :
                \E term \in ProfileTerms :
                    /\ term[2] = normalize_note(label)
                    /\ term[1] \notin MatchingKinds

(***************************************************************************)
(* PerfumeEngine.recommend from the profile text to the local ranking,     *)
(* with the similarities the two texts allow (SpecMatch).                  *)
(***************************************************************************)
\* a catalog record with an id and nothing perfume_to_text makes a token of
TermlessItem(i) ==
    [ ScoreItem(i, "rose_moderate") EXCEPT !.top_notes = << >>, !.intensity = None ]

MatchItems(i) == { TermlessItem(i), ScoreItem(i, "vanilla_soft"), ScoreItem(i, "rose_moderate") }

MatchCatalogFiles ==
    { [ readable |-> TRUE, items |-> << a >> ] : a \in MatchItems(1) }
    \cup { [ readable |-> TRUE, items |-> << a, b >> ] : a \in MatchItems(1), b \in MatchItems(2) }

\* validated questionnaires: the sliders have their default, so the profile
\* text always has the axis terms, which no catalog text has
MatchQuestionnaires ==
    { [ BasePayload EXCEPT !.moods = m, !.limit = l, !.avoid_very_sweet = a ] :
        m \in { << >>, << "sweet" >>, << "floral" >> },
        l \in { MinLimit, DefaultLimit },
        a \in BOOLEAN }

\* cosine_similarity(q_vec, self.matrix)[0]: the TF-IDF rows of two texts have
\* a positive cosine exactly when the texts share a token
cosine_similarity(text, perfumes) ==
    { s \in [ DOMAIN perfumes -> BaseSims \cup { 0 } ] :
        \A i \in DOMAIN perfumes :
            (s[i] = 0) <=> (Range(text) \cap Range(perfume_to_text(perfumes[i])) = {}) }

InitMatch ==
    /\ perfumes_json \in MatchCatalogFiles
    /\ env_key = FALSE
    /\ settings_key = FALSE
    /\ objs = << >>
    /\ engine_instance = 0
    /\ RequestAtRest
    /\ ThreadsAtRest
    /\ PctAtRest
    /\ TextAtRest

NextMatch ==
    /\ pc = "idle"
    /\ \E qdata \in MatchQuestionnaires :
          \E s \in cosine_similarity(questionnaire_to_profile_text(qdata),
                                     load_perfumes(perfumes_json)) :
              RecommendStart(qdata, s)

SpecMatch == InitMatch /\ [][NextMatch]_vars

\* the profile text of the questionnaire shares no token with any catalog text
NothingMatches(qdata) ==
    \A i \in DOMAIN perfumes_json.items :
        Range(questionnaire_to_profile_text(qdata))
            \cap Range(perfume_to_text(adapt_perfume(perfumes_json.items[i]))) = {}

\* C26: a profile or a catalog item without a matching term does not make the
\* request fail; on a catalog of N >= 1 items a profile that matches nothing
\* gets min(limit, N) items, every base similarity being 0, in catalog order
\* when no deduction applies.
ZeroTermsDoNotFail ==
    /\ (pc = "responded" /\ perfumes_json.items # << >>) => response.kind # "exception"
    /\ (pc = "scored" /\ NothingMatches(req.qdata)) =>
          /\ \A i \in DOMAIN sims : sims[i] = 0
          /\ Len(ranking.idx_sorted) = Min(req.qdata.limit, CatalogSize)
          /\ (\A i \in DOMAIN sims : ranking.adjusted_scores[i] = 0) =>
                ranking.idx_sorted = [ i \in 1..Min(req.qdata.limit, CatalogSize) |-> i ]

(***************************************************************************)
(* Threads inside PerfumeEngine.recommend on one engine (SpecConcurrent):  *)
(* the loop over sims (vectorizer.py 331-350) one item at a time, then the *)
(* sort (352-357).                                                         *)
(***************************************************************************)
\* a variant that keeps the list of scores on the engine, one for all calls
ScratchShared(t) == 1

\* "adjusted_scores: List[float] = []" is a local of the call
ScratchOwner(t) == t

\* what the calls are made with
ConcurrentQuestionnaires ==
    [ limit : { DefaultLimit },
      avoid_very_sweet : BOOLEAN,
      avoid_oud : { FALSE },
      contexts : { << >>, << "office" >> } ]

ConcurrentSims == { [ i \in 1..CatalogSize |-> b ] : b \in BaseSims }

\* the call begins: its arguments, and the empty list of scores
RecCall(t, qdata, s) ==
    /\ rpc[t] = "idle"
    /\ rpc' = [ rpc EXCEPT ![t] = "loop" ]
    /\ tq' = [ tq EXCEPT ![t] =
                 [ qdata |-> qdata, sims |-> s, idx |-> 0,
                   concurrent |-> \E u \in Threads : u # t /\ rpc[u] \in { "loop", "sort" } ] ]
    /\ tscores' = [ tscores EXCEPT ![ScratchOwner(t)] = << >> ]
    /\ tresult' = [ tresult EXCEPT ![t] = NoRanking ]
    /\ UNCHANGED << cfg_vars, objs, engine_instance, req_vars, thr_vars, pct_vars, text_vars >>

\* one iteration of "for idx, base_score in enumerate(sims)", or its end
RecLoop(t) ==
    /\ rpc[t] = "loop"
    /\ IF tq[t].idx < Len(tq[t].sims)
       THEN /\ tq' = [ tq EXCEPT ![t].idx = @ + 1 ]
            /\ tscores' = [ tscores EXCEPT ![ScratchOwner(t)] =
                              Append(@, AdjustedScore(objs[engine_instance], tq[t].qdata,
                                                      tq[t].idx + 1,
                                                      tq[t].sims[tq[t].idx + 1])) ]
            /\ UNCHANGED rpc
       ELSE /\ rpc' = [ rpc EXCEPT ![t] = "sort" ]
            /\ UNCHANGED << tq, tscores >>
    /\ UNCHANGED tresult
    /\ UNCHANGED << cfg_vars, objs, engine_instance, req_vars, thr_vars, pct_vars, text_vars >>

\* sorted(range(len(self.perfumes)), key=lambda i: adjusted_scores[i]): a
\* list shorter than the catalog raises IndexError
RecSort(t) ==
    /\ rpc[t] = "sort"
    /\ rpc' = [ rpc EXCEPT ![t] = "done" ]
    /\ LET scores == tscores[ScratchOwner(t)]
           n == Len(objs[engine_instance].perfumes)
       IN  tresult' = [ tresult EXCEPT ![t] =
               IF Len(scores) < n THEN Exception("IndexError")
               ELSE [ adjusted_scores |-> scores,
                      idx_sorted |-> PySlice(sorted_desc(n, scores), tq[t].qdata.limit) ] ]
    /\ UNCHANGED << tq, tscores >>
    /\ UNCHANGED << cfg_vars, objs, engine_instance, req_vars, thr_vars, pct_vars, text_vars >>

\* the caller has its result; the thread is free for the next call
RecReturn(t) ==
    /\ rpc[t] = "done"
    /\ rpc' = [ rpc EXCEPT ![t] = "idle" ]
    /\ tq' = [ tq EXCEPT ![t] = NoRequest ]
    /\ tresult' = [ tresult EXCEPT ![t] = NoRanking ]
    /\ UNCHANGED tscores
    /\ UNCHANGED << cfg_vars, objs, engine_instance, req_vars, thr_vars, pct_vars, text_vars >>

\* the engine has been built and cached before the calls
InitConcurrent ==
    /\ perfumes_json \in { CatalogFile(n, TRUE) : n \in 1..MaxCatalog }
    /\ env_key = FALSE
    /\ settings_key = FALSE
    /\ objs = << PerfumeEngine(load_perfumes(perfumes_json)) >>
    /\ engine_instance = 1
    /\ RequestAtRest
    /\ ThreadsAtRest
    /\ PctAtRest
    /\ TextAtRest

NextConcurrent ==
    \/ \E t \in Threads : \E qdata \in ConcurrentQuestionnaires, s \in ConcurrentSims :
          RecCall(t, qdata, s)
    \/ \E t \in Threads : RecLoop(t)
    \/ \E t \in Threads : RecSort(t)
    \/ \E t \in Threads : RecReturn(t)

SpecConcurrent == InitConcurrent /\ [][NextConcurrent]_vars

\* C27: calls of recommend leave the engine as it was built (perfumes, matrix,
\* very-sweet and oud flags), and in every interleaving a call ends with the
\* scores and the order it has when it runs alone.
RecommendOnlyReads ==
    /\ objs = << PerfumeEngine(load_perfumes(perfumes_json)) >>
    /\ engine_instance = 1
    /\ \A t \in Threads :
          rpc[t] = "done" =>
              tresult[t] = LocalRanking(objs[engine_instance], tq[t].qdata, tq[t].sims)

\* C27 witness: a call that began while another call was in its loop or sort
\* has ended, with a questionnaire that costs some item a deduction.
OverlappingCallEnded ==
    \E t \in Threads :
        /\ rpc[t] = "done"
        /\ tq[t].concurrent
        /\ tq[t].qdata.avoid_very_sweet
        /\ tresult[t].adjusted_scores # tq[t].sims

(***************************************************************************)
(* _ensure_list and the list fields of _adapt_perfume (SpecAdapt).  A JSON *)
(* value is a record tagged by its Python type; a key a record of the file *)
(* does not have is Missing.                                               *)
(***************************************************************************)
Missing == [ t |-> "missing" ]
JsonNull == [ t |-> "null" ]
JsonStr(s) == [ t |-> "str", v |-> s ]
JsonInt(n) == [ t |-> "int", n |-> n ]
JsonList(xs) == [ t |-> "list", items |-> xs ]

\* raw.get(key): None for a key that is absent and for a null
RawGet(raw, key) ==
    IF key \in DOMAIN raw /\ raw[key].t # "missing" THEN raw[key] ELSE JsonNull

\* the truth value of a Python value
PyTruth(val) ==
    CASE val.t = "null" -> FALSE
      [] val.t = "str"  -> val.v # ""
      [] val.t = "int"  -> val.n # 0
      [] val.t = "list" -> val.items # << >>

\* a or b
PyOr(a, b) == IF PyTruth(a) THEN a ELSE b

\* str(x) of an entry of a list
Numeral(n) == CASE n = 0 -> "0" [] n = 3 -> "3" [] n = 7 -> "7"
StrOf(x) == IF x.t = "int" THEN JsonStr(Numeral(x.n)) ELSE x

RECURSIVE StrOfEach(_)
StrOfEach(xs) ==
    IF xs = << >> THEN << >>
    ELSE IF Head(xs).t = "null" THEN StrOfEach(Tail(xs))
    ELSE << StrOf(Head(xs)) >> \o StrOfEach(Tail(xs))

\* a variant that hands a list back as the file holds it
ensure_list_as_is(val) ==
    CASE val.t = "null" -> << >>
      [] val.t = "list" -> val.items
      [] val.t = "str"  -> << val >>
      [] OTHER -> << >>

\* _ensure_list
ensure_list(val) ==
    CASE val.t = "null" -> << >>
      [] val.t = "list" -> StrOfEach(val.items)
      [] val.t = "str"  -> << val >>
      [] OTHER -> << >>

\* the six list fields of the Perfume that _adapt_perfume returns
adapt_perfume_lists(raw) ==
    LET main_accords == ensure_list(PyOr(RawGet(raw, "main_accords"),
                                    PyOr(RawGet(raw, "accords"),
                                    PyOr(RawGet(raw, "mainAccords"),
                                         RawGet(raw, "accordsFa")))))
        top_notes == ensure_list(PyOr(RawGet(raw, "top_notes"), RawGet(raw, "topNotes")))
        heart_notes == ensure_list(PyOr(RawGet(raw, "heart_notes"),
                                   PyOr(RawGet(raw, "middle_notes"),
                                        RawGet(raw, "heartNotes"))))
        base_notes == ensure_list(PyOr(RawGet(raw, "base_notes"), RawGet(raw, "baseNotes")))
        flat_notes == ensure_list(PyOr(RawGet(raw, "notes"), RawGet(raw, "allNotes")))
    IN  [ main_accords |-> main_accords,
          top_notes    |-> top_notes,
          heart_notes  |-> IF top_notes = << >> /\ heart_notes = << >> /\ base_notes = << >>
                           THEN flat_notes ELSE heart_notes,
          base_notes   |-> base_notes,
          seasons      |-> ensure_list(PyOr(RawGet(raw, "seasons"), RawGet(raw, "season"))),
          occasions    |-> ensure_list(PyOr(RawGet(raw, "occasions"),
                                       PyOr(RawGet(raw, "context"),
                                            RawGet(raw, "contexts")))) ]

\* values a field of a record of perfumes.json is given: a list with a null
\* and a number among its entries, a list of one null, an empty list, a
\* single string, an empty string, a number
MixedList == JsonList(<< JsonStr("rose"), JsonNull, JsonInt(3) >>)
RawFieldValues ==
    { Missing, JsonNull, JsonStr("amber"), JsonStr(""), JsonList(<< >>),
      JsonList(<< JsonNull >>), MixedList, JsonInt(7) }

RawRecords ==
    [ main_accords : RawFieldValues,
      accords      : { Missing, JsonStr("woody"), MixedList },
      top_notes    : RawFieldValues,
      heart_notes  : { Missing, JsonList(<< >>), JsonStr("iris") },
      base_notes   : { JsonNull, JsonList(<< JsonNull >>) },
      notes        : { Missing, JsonStr("musk"), MixedList, JsonInt(0) },
      allNotes     : { Missing, JsonList(<< JsonStr("cedar") >>) },
      seasons      : { Missing, JsonStr("winter"), JsonInt(7) },
      occasions    : { JsonNull, MixedList } ]

InitAdapt ==
    /\ raw_in \in { << raw >> : raw \in RawRecords }
    /\ p_in = << >>
    /\ p_text = << >>
    /\ note_in = << >>
    /\ note_out = << >>
    /\ q_in = NoQuestionnaire
    /\ profile_text = << >>
    /\ perfumes_json = Unreadable
    /\ env_key = FALSE
    /\ settings_key = FALSE
    /\ objs = << >>
    /\ engine_instance = 0
    /\ RequestAtRest
    /\ ThreadsAtRest
    /\ PctAtRest

AdaptPerfume ==
    /\ p_in = << >>
    /\ p_in' = << adapt_perfume_lists(raw_in[1]) >>
    /\ UNCHANGED << raw_in, p_text, note_in, note_out, q_in, profile_text >>
    /\ UNCHANGED << cfg_vars, objs, engine_instance, req_vars, thr_vars, rec_vars, pct_vars >>

SpecAdapt == InitAdapt /\ [][AdaptPerfume]_vars

ListFields == { "main_accords", "top_notes", "heart_notes", "base_notes", "seasons", "occasions" }
\* what the record holds for its heart notes, and for its flat notes
RawHeartNotes(raw) ==
    ensure_list(PyOr(RawGet(raw, "heart_notes"),
                PyOr(RawGet(raw, "middle_notes"), RawGet(raw, "heartNotes"))))
RawFlatNotes(raw) == ensure_list(PyOr(RawGet(raw, "notes"), RawGet(raw, "allNotes")))

\* C28: every list field of the adapted item is a list whose entries are all
\* strings, whatever the raw record holds; when the record gives no top,
\* heart or base note, the heart notes are its flat notes list, and
\* otherwise they are its own heart notes.
AdaptedFieldsAreStringLists ==
    p_in # << >> =>
        /\ \A f \in ListFields :
              \A k \in DOMAIN p_in[1][f] : p_in[1][f][k].t = "str"
        /\ p_in[1].heart_notes =
              IF p_in[1].top_notes = << >> /\ p_in[1].base_notes = << >>
                    /\ RawHeartNotes(raw_in[1]) = << >>
              THEN RawFlatNotes(raw_in[1])
              ELSE RawHeartNotes(raw_in[1])

\* C28 witness: a record whose accords are a list with a null and a number
\* in it, whose top notes are a number and whose note groups are all empty
\* while it has a flat notes list, has been adapted.
FlatNotesBecameHeartNotes ==
    /\ p_in # << >>
    /\ raw_in[1].main_accords = MixedList
    /\ raw_in[1].top_notes = JsonInt(7)
    /\ raw_in[1].heart_notes = Missing
    /\ raw_in[1].notes = MixedList
    /\ p_in[1].main_accords = << JsonStr("rose"), JsonStr("3") >>
    /\ p_in[1].top_notes = << >>
    /\ p_in[1].heart_notes = << JsonStr("rose"), JsonStr("3") >>

(***************************************************************************)
(* get_engine called by one handler after the other, while perfumes.json   *)
(* may be rewritten on disk (SpecSequential).                              *)
(***************************************************************************)
\* no other handler is inside get_engine
NoOtherCall(t) == \A u \in Threads \ { t } : tpc[u] \in { "idle", "done", "raised" }

SequentialCall(t) ==
    /\ NoOtherCall(t)
    /\ CallGetEngine(t)

BuildCatalogFiles == { Unreadable } \cup { CatalogFile(n, TRUE) : n \in 0..MaxCatalog }

\* the file load_perfumes reads (vectorizer.py 202-203) is replaced on disk
WriteCatalog(file) ==
    /\ file # perfumes_json
    /\ perfumes_json' = file
    /\ UNCHANGED << env_key, settings_key, objs, engine_instance >>
    /\ UNCHANGED << req_vars, thr_vars, pct_vars, text_vars, rec_vars >>

InitSequential ==
    /\ InitCache
    /\ RecAtRest
    /\ perfumes_json \in BuildCatalogFiles
    /\ env_key = FALSE
    /\ settings_key = FALSE
    /\ RequestAtRest
    /\ PctAtRest
    /\ TextAtRest

NextSequential ==
    \/ \E t \in Threads : SequentialCall(t)
    \/ \E t \in Threads : CheckInstance(t)
    \/ \E t \in Threads : LoadPerfumes(t)
    \/ \E t \in Threads : InitPerfumes(t)
    \/ \E t \in Threads : InitFit(t)
    \/ \E t \in Threads : InitPrecompute(t)
    \/ \E t \in Threads : AssignInstance(t)
    \/ \E t \in Threads : ReturnInstance(t)
    \/ \E t \in Threads : FinishHandler(t)
    \/ \E file \in BuildCatalogFiles : WriteCatalog(file)

SpecSequential == InitSequential /\ [][NextSequential]_vars

\* C29: with get_engine called by one handler at a time: the step at which a
\* build raises (load or fit) leaves the cache empty; the cache never holds
\* an object that is not fully built; a call that finds the cache empty
\* starts a build, whatever happened before; a call that returns, returns
\* the cached instance; and once the cache holds an instance, no step
\* changes the cache or constructs another engine.
FailedBuildLeavesCacheEmpty ==
    /\ [](engine_instance # 0 => FullyBuilt(objs[engine_instance]))
    /\ [](\A t \in Threads : tpc[t] = "done" => (tret[t] # 0 /\ tret[t] = engine_instance))
    /\ [][ /\ \A t \in Threads :
                (tpc[t] # "raised" /\ tpc'[t] = "raised") =>
                    (engine_instance = 0 /\ engine_instance' = 0)
           /\ \A t \in Threads :
                (tpc[t] = "check" /\ tpc'[t] # "check") =>
                    tpc'[t] = (IF engine_instance = 0 THEN "load" ELSE "return")
           /\ engine_instance # 0 =>
                (engine_instance' = engine_instance /\ objs' = objs) ]_vars

\* C29 witness: one handler's call has raised, and a later call of another
\* handler has built the engine from a catalog with items and returned it.
BuildRetriedAfterFailure ==
    \E t, u \in Threads :
        /\ t # u
        /\ tpc[t] = "raised"
        /\ tpc[u] = "done"
        /\ tret[u] # 0
        /\ tret[u] = engine_instance
        /\ Len(objs[engine_instance].perfumes) > 0

(***************************************************************************)
(* Claims about the ids compared in recommend_rerank (Spec).               *)
(***************************************************************************)
\* C30: whenever recommend_rerank answers with fallback = false and the
\* service's list names a perfume that is among the candidates, some returned
\* ranking is that perfume's with the percentage (clamped to 0..100) and the
\* reasons (at most three) the service gave for it.
ServiceRankingRecognised ==
    LET candidates == PySlice(baseline, req.top_k)
        SamePerfume(x, y) == PyInt(x.id) = PyInt(y.id)
        Named == { i \in DOMAIN ai_reply.items :
                     \E c \in DOMAIN candidates : SamePerfume(ai_reply.items[i], candidates[c]) }
    IN  (RerankAnswered /\ ~response.fallback /\ Named # {}) =>
            \E k \in DOMAIN response.rankings, i \in Named :
                LET r == response.rankings[k]
                    item == ai_reply.items[i]
                IN  /\ SamePerfume(r, item)
                    /\ r.matchPercentage = ClampView(item.matchPercentage)
                    /\ r.reasons = IF item.reasons.list
                                   THEN PySlice(item.reasons.items, 3)
                                   ELSE << >>

====
